---- MODULE Spec2Model ----
(***************************************************************************)
(* Model of the record store (BaseManager) of obsidian-bookkeeper and of   *)
(* the validation helpers it calls (ValidationUtils in types.ts).          *)
(*                                                                         *)
(* Text is a sequence of one-character strings, so that encoding,          *)
(* decoding and substring tests are computed, not assumed.  A JavaScript   *)
(* value is a tagged record: Str(s), Num(n) or Undef.  The grave accent is *)
(* written "BACKTICK", one character of the text like any other.          *)
(***************************************************************************)
EXTENDS Integers, Sequences, FiniteSets, TLC

(***************************************************************************)
(* JavaScript values                                                       *)
(***************************************************************************)
Str(s) == [ty |-> "string", s |-> s]

Num(n) == [ty |-> "number", n |-> n]

Undef == [ty |-> "undefined"]

JsNull == [ty |-> "null"]

IsStr(v) == v.ty = "string"

IsNum(v) == v.ty = "number"

\* JavaScript truthiness of a value: '' , 0 and undefined are falsy.
Truthy(v) ==
  CASE v.ty = "string" -> v.s # <<>>
    [] v.ty = "number" -> v.n # 0
    [] OTHER -> FALSE

\* a || b
OrElse(a, b) == IF Truthy(a) THEN a ELSE b

(***************************************************************************)
(* Text helpers                                                            *)
(***************************************************************************)
\* s starts with pat at position i (1-based)
MatchAt(s, pat, i) ==
  /\ i + Len(pat) - 1 <= Len(s)
  /\ \A k \in 1..Len(pat) : s[i + k - 1] = pat[k]

\* String.prototype.includes
Includes(s, pat) == \E i \in 1..(Len(s) + 1) : MatchAt(s, pat, i)

\* what position i of s contributes to s.replace(/pat/g, rep): the
\* replacement where a match starts, nothing inside a match, the character
\* itself elsewhere.  The patterns used (the entities) begin with a
\* character that occurs nowhere else in them, so two matches never overlap
\* and every occurrence is a match of the left-to-right scan.
ReplacePiece(s, pat, rep, i) ==
  IF MatchAt(s, pat, i) THEN rep
  ELSE IF \E j \in (i - Len(pat) + 1)..(i - 1) : j >= 1 /\ MatchAt(s, pat, j)
       THEN <<>>
       ELSE <<s[i]>>

RECURSIVE ReplaceRange(_, _, _, _, _)
ReplaceRange(s, pat, rep, lo, hi) ==
  IF lo > hi THEN <<>>
  ELSE IF lo = hi THEN ReplacePiece(s, pat, rep, lo)
       ELSE LET mid == (lo + hi) \div 2
            IN ReplaceRange(s, pat, rep, lo, mid)
                 \o ReplaceRange(s, pat, rep, mid + 1, hi)

\* s.replace(/pat/g, rep) for a literal, non-empty pattern; a text without
\* the first character of the pattern has no match
ReplaceAll(s, pat, rep) ==
  IF \A i \in 1..Len(s) : s[i] # pat[1]
  THEN s
  ELSE ReplaceRange(s, pat, rep, 1, Len(s))

\* the characters matched by \s that the inputs of the model use
WhiteSpace == {" ", "U+0009"}

\* c, n times
Repeat(c, n) == [i \in 1..n |-> c]

\* String.prototype.trim
RECURSIVE TrimLeft(_)
TrimLeft(s) ==
  IF s # <<>> /\ Head(s) \in WhiteSpace THEN TrimLeft(Tail(s)) ELSE s

RECURSIVE TrimRight(_)
TrimRight(s) ==
  IF s # <<>> /\ s[Len(s)] \in WhiteSpace
  THEN TrimRight(SubSeq(s, 1, Len(s) - 1)) ELSE s

Trim(s) == TrimRight(TrimLeft(s))

(***************************************************************************)
(* ValidationUtils.sanitizeForDisplay / htmlEncode                         *)
(***************************************************************************)
\* the entity map of htmlEncode
entityMap ==
  [c \in {"&", "<", ">", "\"", "'", "/", "BACKTICK", "=", "{", "}", "(", ")", "[", "]",
          "\\", "|", "^", "~", "$", "%", "+", ":", ";", "?", "@", "#"} |->
    CASE c = "&" -> <<"&", "a", "m", "p", ";">>
      [] c = "<" -> <<"&", "l", "t", ";">>
      [] c = ">" -> <<"&", "g", "t", ";">>
      [] c = "\"" -> <<"&", "q", "u", "o", "t", ";">>
      [] c = "'" -> <<"&", "#", "3", "9", ";">>
      [] c = "/" -> <<"&", "#", "x", "2", "F", ";">>
      [] c = "BACKTICK" -> <<"&", "#", "x", "6", "0", ";">>
      [] c = "=" -> <<"&", "#", "x", "3", "D", ";">>
      [] c = "{" -> <<"&", "#", "x", "7", "B", ";">>
      [] c = "}" -> <<"&", "#", "x", "7", "D", ";">>
      [] c = "(" -> <<"&", "#", "x", "2", "8", ";">>
      [] c = ")" -> <<"&", "#", "x", "2", "9", ";">>
      [] c = "[" -> <<"&", "#", "x", "5", "B", ";">>
      [] c = "]" -> <<"&", "#", "x", "5", "D", ";">>
      [] c = "\\" -> <<"&", "#", "x", "5", "C", ";">>
      [] c = "|" -> <<"&", "#", "x", "7", "C", ";">>
      [] c = "^" -> <<"&", "#", "x", "5", "E", ";">>
      [] c = "~" -> <<"&", "#", "x", "7", "E", ";">>
      [] c = "$" -> <<"&", "#", "x", "2", "4", ";">>
      [] c = "%" -> <<"&", "#", "x", "2", "5", ";">>
      [] c = "+" -> <<"&", "#", "x", "2", "B", ";">>
      [] c = ":" -> <<"&", "#", "x", "3", "A", ";">>
      [] c = ";" -> <<"&", "#", "x", "3", "B", ";">>
      [] c = "?" -> <<"&", "#", "x", "3", "F", ";">>
      [] c = "@" -> <<"&", "#", "x", "4", "0", ";">>
      [] c = "#" -> <<"&", "#", "x", "2", "3", ";">>]

\* one pass of encoded.replace(/[&<>...#]/g, char => entityMap.get(char)),
\* on the characters lo..hi of s.  The replacement of a character does not
\* depend on its neighbours, so the range is split in halves.
RECURSIVE EncodeRange(_, _, _)
EncodeRange(s, lo, hi) ==
  IF lo > hi THEN <<>>
  ELSE IF lo = hi
       THEN (IF s[lo] \in DOMAIN entityMap THEN entityMap[s[lo]] ELSE <<s[lo]>>)
       ELSE LET mid == (lo + hi) \div 2
            IN EncodeRange(s, lo, mid) \o EncodeRange(s, mid + 1, hi)

EncodePass(s) == EncodeRange(s, 1, Len(s))

maxIterations == 5

\* the do .. while loop of htmlEncode; iterations counts the passes done
RECURSIVE EncodeLoop(_, _)
EncodeLoop(previousEncoded, iterations) ==
  LET encoded == EncodePass(previousEncoded)
  IN IF encoded # previousEncoded /\ iterations + 1 < maxIterations
     THEN EncodeLoop(encoded, iterations + 1)
     ELSE encoded

htmlEncode(text) == EncodeLoop(text, 0)

\* String.prototype.normalize('NFKC') on the characters the model uses:
\* the fullwidth ampersand U+FF06 is composed to '&', the fullwidth solidus
\* U+FF0F to '/' and the fullwidth zero U+FF10 to '0'; everything else
\* (ASCII) is already normalized.
NFKC(s) ==
  [i \in 1..Len(s) |-> IF s[i] = "U+FF06" THEN "&"
                       ELSE IF s[i] = "U+FF0F" THEN "/"
                       ELSE IF s[i] = "U+FF10" THEN "0" ELSE s[i]]

DisplayLimit == 50000

\* sanitizeForDisplay: a ValidationResult
sanitizeForDisplay(input) ==
  IF ~IsStr(input)
  THEN [success |-> FALSE, code |-> "INVALID_INPUT"]
  ELSE IF Len(input.s) > DisplayLimit
       THEN [success |-> FALSE, code |-> "SECURITY_ERROR"]
       ELSE [success |-> TRUE, data |-> htmlEncode(NFKC(input.s))]

(***************************************************************************)
(* ValidationUtils.sanitizeFileName                                        *)
(***************************************************************************)
\* s.replace(/pat/g, rep) for a literal pattern, as the scan does it: from
\* position i on, left to right, going on behind each match
RECURSIVE ReplaceScan(_, _, _, _)
ReplaceScan(s, pat, rep, i) ==
  IF \A j \in i..Len(s) : ~MatchAt(s, pat, j)
  THEN SubSeq(s, i, Len(s))
  ELSE LET m == CHOOSE j \in i..Len(s) :
                  MatchAt(s, pat, j) /\ \A k \in i..(j - 1) : ~MatchAt(s, pat, k)
       IN SubSeq(s, i, m - 1) \o rep \o ReplaceScan(s, pat, rep, m + Len(pat))

\* s.replace(/[set]+/g, c): every run of characters of set becomes one c
ReplaceRuns(s, set, c) ==
  LET marked == [i \in 1..Len(s) |->
                   IF s[i] \notin set THEN s[i]
                   ELSE IF i > 1 /\ s[i - 1] \in set THEN "" ELSE c]
  IN SelectSeq(marked, LAMBDA x : x # "")

\* s.replace(/[set]/g, c)
ReplaceEach(s, set, c) == [i \in 1..Len(s) |-> IF s[i] \in set THEN c ELSE s[i]]

\* s.replace(/^c+/, '')
StripLeading(s, c) ==
  IF \A i \in 1..Len(s) : s[i] = c THEN <<>>
  ELSE SubSeq(s, CHOOSE i \in 1..Len(s) :
                   s[i] # c /\ \A j \in 1..(i - 1) : s[j] = c, Len(s))

\* s.replace(/c+$/, '')
StripTrailing(s, c) ==
  IF \A i \in 1..Len(s) : s[i] = c THEN <<>>
  ELSE SubSeq(s, 1, CHOOSE i \in 1..Len(s) :
                      s[i] # c /\ \A j \in (i + 1)..Len(s) : s[j] = c)

\* String.prototype.startsWith / endsWith
StartsWith(s, pat) == MatchAt(s, pat, 1)

EndsWith(s, pat) == Len(pat) <= Len(s) /\ MatchAt(s, pat, Len(s) - Len(pat) + 1)

\* [\x00-\x1f\x80-\x9f], as far as the inputs of the model go
ControlChars == {"U+0001"}

\* [<>:"/\\|?*]
ProblemChars == {"<", ">", ":", "\"", "/", "\\", "|", "?", "*"}

\* a pass that leaves the parent directory references in
KeepParents(s) == s

\* .replace(/\.\./g, '')
RemoveParents(s) == ReplaceScan(s, <<".", ".">>, <<>>, 1)

\* the fourteen replacements of one pass of the loop, in their order
SanitizePass(s) ==
  LET s1 == ReplaceRuns(s, {"/", "\\"}, "-")
      s2 == RemoveParents(s1)
      s3 == ReplaceScan(s2, <<".", "-", ".">>, <<>>, 1)
      s4 == ReplaceScan(s3, <<"-", ".", ".", "-">>, <<"-">>, 1)
      s5 == IF StartsWith(s4, <<".", ".", "-">>) THEN SubSeq(s4, 4, Len(s4)) ELSE s4
      s6 == IF EndsWith(s5, <<"-", ".", ".">>) THEN SubSeq(s5, 1, Len(s5) - 3) ELSE s5
      s7 == SelectSeq(s6, LAMBDA c : c \notin ControlChars)
      s8 == StripLeading(s7, ".")
      s9 == StripTrailing(s8, ".")
      s10 == ReplaceEach(s9, ProblemChars, "-")
      s11 == ReplaceRuns(s10, WhiteSpace, " ")
      s12 == ReplaceRuns(s11, {"-"}, "-")
      s13 == StripLeading(s12, "-")
  IN StripTrailing(s13, "-")

maxNameIterations == 10

\* the do .. while loop of sanitizeFileName; iterations counts the passes done
RECURSIVE SanitizeLoop(_, _)
SanitizeLoop(previousSanitized, iterations) ==
  LET sanitized == SanitizePass(previousSanitized)
  IN IF sanitized # previousSanitized /\ iterations + 1 < maxNameIterations
     THEN SanitizeLoop(sanitized, iterations + 1)
     ELSE sanitized

LowerCase == <<"a", "b", "c", "d", "e", "f", "g", "h", "i", "j", "k", "l", "m",
               "n", "o", "p", "q", "r", "s", "t", "u", "v", "w", "x", "y", "z">>

UpperCase == <<"A", "B", "C", "D", "E", "F", "G", "H", "I", "J", "K", "L", "M",
               "N", "O", "P", "Q", "R", "S", "T", "U", "V", "W", "X", "Y", "Z">>

\* String.prototype.toUpperCase / toLowerCase
toUpperCase(s) ==
  [i \in 1..Len(s) |->
     IF \E k \in 1..26 : LowerCase[k] = s[i]
     THEN UpperCase[CHOOSE k \in 1..26 : LowerCase[k] = s[i]] ELSE s[i]]

toLowerCase(s) ==
  [i \in 1..Len(s) |->
     IF \E k \in 1..26 : UpperCase[k] = s[i]
     THEN LowerCase[CHOOSE k \in 1..26 : UpperCase[k] = s[i]] ELSE s[i]]

windowsReserved ==
  {<<"C", "O", "N">>, <<"P", "R", "N">>, <<"A", "U", "X">>, <<"N", "U", "L">>}
    \cup {<<"C", "O", "M", d>> : d \in {"1", "2", "3", "4", "5", "6", "7", "8", "9"}}
    \cup {<<"L", "P", "T", d>> : d \in {"1", "2", "3", "4", "5", "6", "7", "8", "9"}}

\* upperName.split('.')[0]
BaseName(s) ==
  IF \E i \in 1..Len(s) : s[i] = "."
  THEN SubSeq(s, 1, (CHOOSE i \in 1..Len(s) :
                       s[i] = "." /\ \A j \in 1..(i - 1) : s[j] # ".") - 1)
  ELSE s

dangerousExtensions ==
  << <<".", "e", "x", "e">>, <<".", "b", "a", "t">>, <<".", "c", "m", "d">>,
     <<".", "c", "o", "m">>, <<".", "p", "i", "f">>, <<".", "s", "c", "r">>,
     <<".", "v", "b", "s">>, <<".", "j", "s">>, <<".", "j", "a", "r">>,
     <<".", "a", "p", "p">>, <<".", "d", "e", "b">>, <<".", "p", "k", "g">>,
     <<".", "d", "m", "g">>, <<".", "s", "h">>, <<".", "p", "s", "1">>,
     <<".", "m", "s", "i">>, <<".", "r", "e", "g">> >>

SafeSuffix == <<"_", "s", "a", "f", "e", ".", "t", "x", "t">>

\* for (const ext of dangerousExtensions) ..., from the i-th extension on
RECURSIVE RenameExtensions(_, _)
RenameExtensions(s, i) ==
  IF i > Len(dangerousExtensions) THEN s
  ELSE LET ext == dangerousExtensions[i]
       IN IF EndsWith(toLowerCase(s), ext)
          THEN RenameExtensions(SubSeq(s, 1, Len(s) - Len(ext)) \o SafeSuffix, i + 1)
          ELSE RenameExtensions(s, i + 1)

MaxNameLength == 200

\* the steps behind the loop: reserved names, extensions, length, empty name
AfterLoop(looped) ==
  LET prefixed == IF BaseName(toUpperCase(looped)) \in windowsReserved
                  THEN <<"s", "a", "f", "e", "_">> \o looped ELSE looped
      renamed == RenameExtensions(prefixed, 1)
      cut == IF Len(renamed) > MaxNameLength
             THEN SubSeq(renamed, 1, MaxNameLength) ELSE renamed
  IN IF Len(cut) = 0
     THEN <<"u", "n", "t", "i", "t", "l", "e", "d", "_", "f", "i", "l", "e">>
     ELSE cut

\* sanitizeFileName: a ValidationResult
sanitizeFileName(fileName) ==
  IF ~IsStr(fileName)
  THEN [success |-> FALSE, code |-> "INVALID_INPUT"]
  ELSE LET trimmed == Trim(fileName.s)
       IN IF Len(trimmed) = 0
          THEN [success |-> FALSE, code |-> "INVALID_INPUT"]
          ELSE [success |-> TRUE, data |-> AfterLoop(SanitizeLoop(NFKC(trimmed), 0))]

(***************************************************************************)
(* ValidationUtils.validateISBN                                            *)
(***************************************************************************)
Digits == {"0", "1", "2", "3", "4", "5", "6", "7", "8", "9"}

\* parseInt of one decimal digit
DigitVal(c) ==
  CASE c = "0" -> 0 [] c = "1" -> 1 [] c = "2" -> 2 [] c = "3" -> 3
    [] c = "4" -> 4 [] c = "5" -> 5 [] c = "6" -> 6 [] c = "7" -> 7
    [] c = "8" -> 8 [] c = "9" -> 9

\* the order in which validateISBN decodes the entities: '&amp;' last
decodeOrder ==
  <<"<", ">", "\"", "'", "/", "BACKTICK", "=", "{", "}", "(", ")", "[", "]",
    "\\", "|", "^", "~", "$", "%", "+", ":", ";", "?", "@", "#", "&">>

\* the chain of .replace(/&..;/g, char) calls, from the k-th on
RECURSIVE DecodeChain(_, _)
DecodeChain(s, k) ==
  IF k > Len(decodeOrder) THEN s
  ELSE DecodeChain(ReplaceAll(s, entityMap[decodeOrder[k]], <<decodeOrder[k]>>),
                   k + 1)

maxDecodeIterations == 10

\* the do .. while loop that decodes to a fixed point
RECURSIVE DecodeLoop(_, _)
DecodeLoop(previousCleaned, iterations) ==
  LET cleanedISBN == DecodeChain(previousCleaned, 1)
  IN IF cleanedISBN # previousCleaned /\ iterations + 1 < maxDecodeIterations
     THEN DecodeLoop(cleanedISBN, iterations + 1)
     ELSE cleanedISBN

dangerousChars ==
  {"<", ">", "&", "\"", "'", "BACKTICK", "=", "{", "}", "(", ")", "[", "]",
   "\\", "|", "^", "~", "$", "%", "+", ":", ";", "?", "@", "#"}

\* cleanedISBN.replace(/[-\s]/g, '')
StripSeparators(s) == SelectSeq(s, LAMBDA c : c # "-" /\ c \notin WhiteSpace)

\* a check of the form only
validateISBN10FormOnly(isbn) ==
  /\ Len(isbn) = 10
  /\ \A i \in 1..9 : isbn[i] \in Digits
  /\ isbn[10] \in Digits \cup {"X", "x"}

validateISBN10(isbn) ==
  /\ Len(isbn) = 10
  /\ \A i \in 1..9 : isbn[i] \in Digits
  /\ isbn[10] \in Digits \cup {"X", "x"}
  /\ LET w[i \in 0..9] ==
           IF i = 0 THEN 0 ELSE w[i - 1] + DigitVal(isbn[i]) * (11 - i)
         sum == w[9]
         calculatedCheck == (11 - (sum % 11)) % 11
         checkDigit == IF isbn[10] = "x" THEN "X" ELSE isbn[10]
     IN IF calculatedCheck = 10
        THEN checkDigit = "X"
        ELSE checkDigit \in Digits /\ DigitVal(checkDigit) = calculatedCheck

validateISBN13(isbn) ==
  /\ Len(isbn) = 13
  /\ \A i \in 1..13 : isbn[i] \in Digits
  /\ LET w[i \in 0..12] ==
           IF i = 0 THEN 0
           ELSE w[i - 1] + (IF (i - 1) % 2 = 0 THEN DigitVal(isbn[i])
                                               ELSE DigitVal(isbn[i]) * 3)
         sum == w[12]
         calculatedCheck == (10 - (sum % 10)) % 10
     IN DigitVal(isbn[13]) = calculatedCheck

\* validateISBN: a ValidationResult
validateISBN(isbn) ==
  IF ~IsStr(isbn) THEN [success |-> FALSE, code |-> "INVALID_INPUT"]
  ELSE
    LET displayResult == sanitizeForDisplay(isbn)
    IN IF ~displayResult.success
       THEN [success |-> FALSE, code |-> "VALIDATION_ERROR"]
       ELSE
         LET cleanedISBN == DecodeLoop(displayResult.data, 0)
             finalCleanISBN == StripSeparators(cleanedISBN)
         IN IF \E i \in 1..Len(cleanedISBN) : cleanedISBN[i] \in dangerousChars
            THEN [success |-> FALSE, code |-> "SECURITY_ERROR"]
            ELSE IF \/ finalCleanISBN = <<>>
                    \/ \E i \in 1..Len(finalCleanISBN) :
                         finalCleanISBN[i] \notin Digits \cup {"X", "x"}
                 THEN [success |-> FALSE, code |-> "INVALID_INPUT"]
                 ELSE IF \/ Len(finalCleanISBN) = 10 /\ validateISBN10(finalCleanISBN)
                         \/ Len(finalCleanISBN) = 13 /\ validateISBN13(finalCleanISBN)
                      THEN [success |-> TRUE, data |-> finalCleanISBN]
                      ELSE [success |-> FALSE, code |-> "INVALID_INPUT"]

(***************************************************************************)
(* Records, entries and the collection file (types.ts, BaseManager)        *)
(***************************************************************************)
\* the optional string fields and the optional number fields of BookData,
\* each with the key of the BaseEntry that stores it
StringFields ==
  [started_date |-> "Started_Date", finished_date |-> "Finished_Date",
   genre |-> "Genre", publisher |-> "Publisher",
   year_published |-> "Year_Published", notes_link |-> "Notes_Link",
   description |-> "Description", cover_path |-> "Cover_Path"]

NumberFields == [rating |-> "Rating", pages |-> "Pages"]

RequiredFields ==
  [title |-> "Title", author |-> "Author", isbn |-> "ISBN", status |-> "Status"]

EntryKeys ==
  {RequiredFields[k] : k \in DOMAIN RequiredFields}
    \cup {StringFields[k] : k \in DOMAIN StringFields}
    \cup {NumberFields[k] : k \in DOMAIN NumberFields}

\* obj.key of a JavaScript object: undefined when the key is absent
Field(obj, k) == IF k \in DOMAIN obj THEN obj[k] ELSE Undef

BookStatuses == {<<"to-read">>, <<"reading">>, <<"completed">>}

isBookStatus(value) == IsStr(value) /\ value.s \in BookStatuses

\* bookDataToBaseEntry
bookDataToBaseEntry(bookData) ==
  [k \in EntryKeys |->
     IF \E f \in DOMAIN RequiredFields : RequiredFields[f] = k
     THEN Field(bookData, CHOOSE f \in DOMAIN RequiredFields : RequiredFields[f] = k)
     ELSE IF \E f \in DOMAIN StringFields : StringFields[f] = k
          THEN OrElse(Field(bookData,
                        CHOOSE f \in DOMAIN StringFields : StringFields[f] = k),
                      Str(<<>>))
          ELSE OrElse(Field(bookData,
                        CHOOSE f \in DOMAIN NumberFields : NumberFields[f] = k),
                      Str(<<>>))]

\* safeStringValue
safeStringValue(value) ==
  IF IsStr(value) /\ Len(Trim(value.s)) > 0
  THEN LET result == sanitizeForDisplay(value)
       IN IF result.success THEN Str(result.data) ELSE Undef
  ELSE Undef

\* parseFloat of a text: the value of its leading decimal digits (after
\* leading white space), NaN (here Undef) when there is none
RECURSIVE LeadingNumber(_, _)
LeadingNumber(s, acc) ==
  IF s # <<>> /\ Head(s) \in Digits
  THEN LeadingNumber(Tail(s), acc * 10 + DigitVal(Head(s)))
  ELSE acc

parseFloat(s) ==
  LET t == TrimLeft(s)
  IN IF t # <<>> /\ Head(t) \in Digits THEN Num(LeadingNumber(t, 0)) ELSE Undef

\* safeNumberValue
safeNumberValue(value) ==
  IF IsNum(value) THEN value
  ELSE IF IsStr(value) THEN parseFloat(value.s)
       ELSE Undef

\* the record returned by the catch block of baseEntryToBookData
PlaceholderBook ==
  [title |-> Str(<<"U", "n", "k", "n", "o", "w", "n", " ", "T", "i", "t", "l", "e">>),
   author |-> Str(<<"U", "n", "k", "n", "o", "w", "n", " ", "A", "u", "t", "h", "o", "r">>),
   isbn |-> Str(<<"u", "n", "k", "n", "o", "w", "n">>),
   status |-> Str(<<"to-read">>)]

\* as baseEntryToBookData, had it given the placeholder for every entry
baseEntryToBookDataPlaceholder(entry) == PlaceholderBook

\* baseEntryToBookData.  A BookData is a function whose domain holds the
\* four required keys and the optional keys that were assigned.
baseEntryToBookData(entry) ==
  LET status == IF isBookStatus(Field(entry, "Status"))
                THEN Field(entry, "Status") ELSE Str(<<"to-read">>)
      titleResult == sanitizeForDisplay(OrElse(Field(entry, "Title"), Str(<<>>)))
      authorResult == sanitizeForDisplay(OrElse(Field(entry, "Author"), Str(<<>>)))
      isbnResult == validateISBN(OrElse(Field(entry, "ISBN"), Str(<<>>)))
      optional(f) ==
        IF f \in DOMAIN StringFields
        THEN safeStringValue(Field(entry, StringFields[f]))
        ELSE safeNumberValue(Field(entry, NumberFields[f]))
      assigned == {f \in DOMAIN StringFields \cup DOMAIN NumberFields :
                     optional(f) # Undef}
  IN IF ~titleResult.success \/ ~authorResult.success
     THEN PlaceholderBook
     ELSE [f \in DOMAIN RequiredFields \cup assigned |->
             CASE f = "title" -> Str(titleResult.data)
               [] f = "author" -> Str(authorResult.data)
               [] f = "isbn" -> IF isbnResult.success
                                THEN Str(isbnResult.data)
                                ELSE OrElse(Field(entry, "ISBN"), Str(<<>>))
               [] f = "status" -> status
               [] OTHER -> optional(f)]

\* { ...book, ...updates }
Spread(book, updates) ==
  [f \in DOMAIN book \cup DOMAIN updates |->
     IF f \in DOMAIN updates THEN updates[f] ELSE book[f]]

\* entries.some(entry => entry.ISBN === isbn)
isDuplicate(entries, isbn) ==
  \E i \in 1..Len(entries) : Field(entries[i], "ISBN") = isbn

\* entries.findIndex(entry => entry.ISBN === isbn): 1-based, 0 for -1
findIndex(entries, isbn) ==
  IF isDuplicate(entries, isbn)
  THEN CHOOSE i \in 1..Len(entries) :
         /\ Field(entries[i], "ISBN") = isbn
         /\ \A j \in 1..(i - 1) : Field(entries[j], "ISBN") # isbn
  ELSE 0

\* the fields list written by createEmptyBaseContent
BaseFields ==
  <<[name |-> "Title", type |-> "text"], [name |-> "Author", type |-> "text"],
    [name |-> "ISBN", type |-> "text"], [name |-> "Status", type |-> "select"],
    [name |-> "Started_Date", type |-> "date"],
    [name |-> "Finished_Date", type |-> "date"],
    [name |-> "Rating", type |-> "number"], [name |-> "Pages", type |-> "number"],
    [name |-> "Genre", type |-> "text"], [name |-> "Publisher", type |-> "text"],
    [name |-> "Year_Published", type |-> "text"],
    [name |-> "Description", type |-> "text"],
    [name |-> "Cover_Path", type |-> "text"],
    [name |-> "Notes_Link", type |-> "link"]>>

(***************************************************************************)
(* A file's text is modelled by what JSON.parse makes of it: Json(v) is    *)
(* the text of the value v, Malformed a text that JSON.parse rejects.      *)
(***************************************************************************)
Json(v) == [form |-> "json", value |-> v]

Malformed == [form |-> "malformed"]

\* a text that JSON.parse rejects, with the characters it is made of
MalformedText(text) == [form |-> "malformed", text |-> text]

\* JSON.stringify(value, null, 2): keys whose value is undefined are left out
stringify(data) ==
  Json([fields |-> data.fields,
        entries |-> [i \in 1..Len(data.entries) |->
                       [k \in {x \in DOMAIN data.entries[i] :
                                 data.entries[i][x] # Undef} |->
                          data.entries[i][k]]]])

\* as createEmptyBaseContent, had the entries key been left out
createEmptyBaseContentNoEntries == Json([fields |-> BaseFields])

createEmptyBaseContent == stringify([fields |-> BaseFields, entries |-> <<>>])

protoMarker == <<"_", "_", "p", "r", "o", "t", "o", "_", "_">>

prototypeMarker == <<"p", "r", "o", "t", "o", "t", "y", "p", "e">>

\* jsonString.includes('__proto__') || jsonString.includes('prototype').
\* The key names of the file are the fixed names above, so a marker can only
\* be inside a string value of an entry; escaping (\" and \\) never creates
\* or splits a marker made of letters and underscores.
hasMarker(content) ==
  \/ /\ content.form = "malformed"
     /\ "text" \in DOMAIN content
     /\ (Includes(content.text, protoMarker) \/ Includes(content.text, prototypeMarker))
  \/ /\ content.form = "json"
     /\ "entries" \in DOMAIN content.value
     /\ \E i \in 1..Len(content.value.entries) :
          \E k \in DOMAIN content.value.entries[i] :
            LET v == content.value.entries[i][k]
            IN IsStr(v) /\ (Includes(v.s, protoMarker) \/ Includes(v.s, prototypeMarker))

\* isBaseFileData
isBaseFileData(obj) ==
  /\ "fields" \in DOMAIN obj
  /\ \A i \in 1..Len(obj.fields) :
       obj.fields[i].type \in {"text", "select", "date", "number", "link"}
  /\ "entries" \in DOMAIN obj

\* validator(parsed): the type guard of the caller accepts the value, rejects
\* it, or throws
Guard(validator, parsed) ==
  CASE validator = "isBaseFileData" ->
         IF isBaseFileData(parsed) THEN "accepts" ELSE "rejects"
    [] validator = "accepting" -> "accepts"
    [] validator = "rejecting" -> "rejects"
    [] validator = "throwing" -> "throws"

\* as safeJsonParseWith, had JSON.parse come before the security check
safeJsonParseParsingFirst(jsonString, validator) ==
  IF "form" \notin DOMAIN jsonString
  THEN [success |-> FALSE, code |-> "INVALID_INPUT"]
  ELSE IF jsonString.form # "json" THEN [success |-> FALSE, code |-> "INVALID_JSON"]
       ELSE IF hasMarker(jsonString)
            THEN [success |-> FALSE, code |-> "SECURITY_ERROR"]
            ELSE IF Guard(validator, jsonString.value) = "accepts"
                 THEN [success |-> TRUE, data |-> jsonString.value]
                 ELSE [success |-> FALSE, code |-> "SCHEMA_VIOLATION"]

\* safeJsonParse(jsonString, validator): a text has a form, any other value
\* is no string; what the try block throws ends as INVALID_JSON
safeJsonParseWith(jsonString, validator) ==
  IF "form" \notin DOMAIN jsonString
  THEN [success |-> FALSE, code |-> "INVALID_INPUT"]
  ELSE IF hasMarker(jsonString)
       THEN [success |-> FALSE, code |-> "SECURITY_ERROR"]
       ELSE IF jsonString.form # "json"
            THEN [success |-> FALSE, code |-> "INVALID_JSON"]
            ELSE LET verdict == Guard(validator, jsonString.value)
                 IN IF verdict = "accepts"
                    THEN [success |-> TRUE, data |-> jsonString.value]
                    ELSE IF verdict = "rejects"
                         THEN [success |-> FALSE, code |-> "SCHEMA_VIOLATION"]
                         ELSE [success |-> FALSE, code |-> "INVALID_JSON"]

\* safeJsonParse(content, isBaseFileData)
safeJsonParse(content) == safeJsonParseWith(content, "isBaseFileData")

\* parseBaseContent: the ok flag is FALSE where the code throws
parseBaseContent(content) ==
  LET parseResult == safeJsonParse(content)
  IN IF parseResult.success
     THEN [ok |-> TRUE, data |-> parseResult.data]
     ELSE [ok |-> FALSE]

(***************************************************************************)
(* Inputs of the model                                                     *)
(***************************************************************************)
PathMain == "Books.base"

PathOther == "Other.base"

Paths == {PathMain, PathOther}

Procs == {"p1", "p2"}

ISBN10 == <<"0", "3", "0", "6", "4", "0", "6", "1", "5", "2">>

ISBN10Hyphens == <<"0", "-", "3", "0", "6", "-", "4", "0", "6", "1", "5", "-", "2">>

ISBN13 == <<"9", "7", "8", "0", "3", "0", "6", "4", "0", "6", "1", "5", "7">>

ISBN13Bad == <<"9", "7", "8", "0", "3", "0", "6", "4", "0", "6", "1", "5", "8">>

BookA ==
  [title |-> Str(<<"D", "u", "n", "e">>), author |-> Str(<<"F", "H">>),
   isbn |-> Str(ISBN10), status |-> Str(<<"to-read">>)]

\* a title with a markup-special character, and optional fields
BookB ==
  [title |-> Str(<<"A", "&", "B">>), author |-> Str(<<"X">>),
   isbn |-> Str(ISBN13), status |-> Str(<<"reading">>),
   rating |-> Num(4), genre |-> Str(<<"S", "F">>)]

\* the identifier of BookA as the manual-entry dialog passes it, with hyphens
BookC == [BookA EXCEPT !.isbn = Str(ISBN10Hyphens)]

EnsureInputs == {PathMain}

AddInputs == {<<PathMain, BookB>>, <<PathMain, BookC>>, <<PathOther, BookA>>}

UpdateInputs ==
  {<<PathMain, Str(ISBN13), [status |-> Str(<<"completed">>)]>>,
   <<PathMain, Str(ISBN10Hyphens), [isbn |-> Str(ISBN13)]>>,
   <<PathMain, Str(ISBN10Hyphens), [rating |-> Num(5)]>>}

GetInputs == {<<PathMain, Str(ISBN13)>>, <<PathMain, Str(ISBN10Hyphens)>>}

\* what an edit made outside the store may leave in the file
BookX ==
  [title |-> Str(<<"E", "m", "m", "a">>), author |-> Str(<<"J", "A">>),
   isbn |-> Str(ISBN13), status |-> Str(<<"completed">>)]

ExternalContents ==
  {stringify([fields |-> BaseFields, entries |-> <<bookDataToBaseEntry(BookX)>>]),
   Json([fields |-> BaseFields]),
   Malformed}

\* CACHE_TTL = 5 * 60 * 1000
CACHE_TTL == 300000

\* how far the clock moves in one step of the model: past the time to live
\* of a cache entry, so that the timer may or may not have dropped an entry
\* whenever time has passed
TickSteps == {CACHE_TTL + 1}

\* how many calls of the store and events of the environment (a failure of
\* the vault, an edit outside the store, a tick of the clock, a clearCache)
\* a run may have altogether
MaxOps == 4

\* the same where calls may overlap
MaxOpsConcurrent == 3

\* reading an entry encodes its title and author again (one character
\* becomes hundreds); update and get are explored on stored texts up to
\* this length
MaxText == 8

(***************************************************************************)
(* State                                                                   *)
(***************************************************************************)
VARIABLES
  vault,      \* per path: does the file exist, its text, its mtime
  cache,      \* BaseManager.cache: per path a reference to the cached data
  heap,       \* the BaseFileData objects that cache or callers refer to
  now,        \* Date.now()
  pc,         \* per call in flight: the await it is suspended at
  call,       \* per caller: the operation and its arguments
  loc,        \* per caller: the local variables of the operation
  result,     \* per caller: what the operation returned or threw
  gh,         \* per caller: what the call found when it began, what it did
  ext,        \* per path: has the file been edited outside the store
  lastWrite,  \* per path: the last completed write, while the file still holds it
  budget,     \* how many calls and events of the environment so far
  concurrent, \* may calls overlap each other and the events of the environment
  time,       \* Date.now() as OpenLibraryAPI reads it
  requests,   \* OpenLibraryAPI.rateLimitState.requests
  lock,       \* the gates chained on OpenLibraryAPI.rateLimitLock, oldest first
  fpc,        \* per fetchBookData call: where it is
  wake,       \* per fetchBookData call: when the sleep of its gate ends
  sent,       \* the times of all requests recorded so far
  arg,        \* the input a function of ValidationUtils is applied to
  ret,        \* what the function returned for it
  plug        \* BookTrackerPlugin: its settings, its notes and covers, and
              \* where its addBookToBase is

storeVars ==
  <<vault, cache, heap, now, pc, call, loc, result, gh, ext, lastWrite,
    budget, concurrent>>

apiVars == <<time, requests, lock, fpc, wake, sent>>

fnVars == <<arg, ret>>

vars == <<storeVars, apiVars, fnVars, plug>>

\* the calls of OpenLibraryAPI.fetchBookData that may be in flight
Fetchers == {"f1", "f2", "f3"}

\* a call of fetchBookData not made yet: where the call is, the source it is
\* asking, its argument, what Open Library answered, and the rate limit checks
\* and requests it has made
NoFetch ==
  [at |-> "idle", source |-> "openlibrary", isbn |-> Undef,
   openLibraryData |-> Undef, log |-> <<>>]

\* OpenLibraryAPI before any call
ApiAtRest ==
  /\ time = 0
  /\ requests = <<>>
  /\ lock = <<>>
  /\ fpc = [f \in Fetchers |-> NoFetch]
  /\ wake = [f \in Fetchers |-> 0]
  /\ sent = <<>>

\* no function of ValidationUtils has been applied
NoReturn == [fn |-> "none", on |-> "none", out |-> Undef, first |-> Undef]

FnAtRest == arg = Undef /\ ret = NoReturn

\* DEFAULT_SETTINGS, as far as addBookToBase of the plugin reads them
DEFAULT_SETTINGS ==
  [baseFilePath |-> PathMain, coversFolder |-> Str(<<"c", "o", "v", "e", "r", "s">>),
   createLinkedNotes |-> TRUE]

\* the plugin with no addBookToBase begun: added tells what the add of the
\* store returned, noteMade and issued whether the note was created and the
\* update of the store has returned
NoPlugin ==
  [at |-> "idle", settings |-> DEFAULT_SETTINGS, bookData |-> <<>>,
   added |-> "none", noteMade |-> FALSE, issued |-> FALSE,
   coverFailed |-> FALSE, noteFailed |-> FALSE, notes |-> {}, covers |-> {}]

PluginAtRest == plug = NoPlugin

ObjIds == 1..(Cardinality(Paths) + Cardinality(Procs) + 1)

Null == [free |-> TRUE]

NoFile == [exists |-> FALSE, content |-> Malformed, mtime |-> 0]

\* a path without a cache entry
NoEntry == [data |-> 0, lastModified |-> 0]

NoCall == [op |-> "none", path |-> PathMain, book |-> <<>>, isbn |-> Undef,
           updates |-> <<>>]

NoLoc == [lastModified |-> 0, content |-> Malformed, baseData |-> 0,
          updatedContent |-> Malformed]

NoResult == [kind |-> "none"]

NoGhost ==
  [file |-> NoFile, entry |-> NoEntry, data |-> Null, view |-> Null,
   calm |-> TRUE, failed |-> FALSE, failedAt |-> "none", hit |-> FALSE,
   creates |-> 0, reads |-> 0, writes |-> 0, seen |-> [valid |-> FALSE]]

\* as CacheFresh, had the comparison of the times been forgotten
CacheFreshAnyTime(cached, lastModified) == cached # NoEntry

\* cached && cached.lastModified >= lastModified
CacheFresh(cached, lastModified) ==
  cached # NoEntry /\ cached.lastModified >= lastModified

\* fileStats?.mtime || 0
StatTime(file) == file.mtime

\* the collection the caching read path would hand out for a path now
View(path) ==
  IF ~vault[path].exists THEN Null
  ELSE IF CacheFresh(cache[path], StatTime(vault[path]))
       THEN heap[cache[path].data]
       ELSE LET parsed == parseBaseContent(vault[path].content)
            IN IF parsed.ok THEN parsed.data ELSE Null

Init ==
  /\ vault = [f \in Paths |-> NoFile]
  /\ cache = [f \in Paths |-> NoEntry]
  /\ heap = [i \in ObjIds |-> Null]
  /\ now = 1
  /\ pc = [p \in Procs |-> "idle"]
  /\ call = [p \in Procs |-> NoCall]
  /\ loc = [p \in Procs |-> NoLoc]
  /\ result = [p \in Procs |-> NoResult]
  /\ gh = [p \in Procs |-> NoGhost]
  /\ ext = [f \in Paths |-> FALSE]
  /\ lastWrite = [f \in Paths |-> [valid |-> FALSE]]
  /\ budget = 0
  /\ concurrent = FALSE
  /\ ApiAtRest
  /\ FnAtRest
  /\ PluginAtRest

\* objects that nothing refers to any more are dropped
Collect(h, c, l) ==
  [i \in ObjIds |->
     IF i \in {c[f].data : f \in Paths} \cup {l[p].baseData : p \in Procs}
     THEN h[i] ELSE Null]

FreeIds == {i \in ObjIds : heap[i] = Null}

NewId == CHOOSE i \in FreeIds : \A j \in FreeIds : i <= j

NewId2 == CHOOSE i \in FreeIds \ {NewId} : \A j \in FreeIds \ {NewId} : i <= j

\* a step of p, or of the environment when p is "env", may have changed what
\* the other calls in flight (or finished and not yet returned) rely on
Disturb(g, p) ==
  [q \in Procs |->
     IF q # p /\ pc[q] # "idle" THEN [g[q] EXCEPT !.calm = FALSE] ELSE g[q]]

\* what a call finds when it begins
Begin(p, path) ==
  [NoGhost EXCEPT !.file = vault[path], !.entry = cache[path],
                  !.data = IF cache[path] = NoEntry THEN Null
                           ELSE heap[cache[path].data],
                  !.view = View(path),
                  !.seen = lastWrite[path]]

\* the calls and events a run may still have
MayAct == budget < (IF concurrent THEN MaxOpsConcurrent ELSE MaxOps)

\* an edit, a clearCache or the timer comes between two calls, unless
\* overlap is being explored
EnvMayAct == concurrent \/ \A p \in Procs : pc[p] = "idle"

CanCall(p) ==
  /\ pc[p] = "idle"
  /\ MayAct
  /\ p = "p1" \/ (concurrent /\ pc["p1"] # "idle")

(***************************************************************************)
(* The operations of BaseManager.  A call runs from one await to the next  *)
(* in one step; between two steps other calls, the clock, the interval     *)
(* timer and edits made outside the store may take theirs.                 *)
(***************************************************************************)
\* the call of p ends: with what it returns, or with the error it throws
Finish(p, res, g) ==
  /\ pc' = [pc EXCEPT ![p] = "done"]
  /\ result' = [result EXCEPT ![p] = res]
  /\ gh' = Disturb(g, p)

\* a step of the collaborator or the decoder threw: addBookToBase and
\* updateBookInBase catch and throw a new Error, ensureBaseFile lets the
\* error through, getBookFromBase catches it and returns null
Caught(op) == IF op = "get" THEN [kind |-> "null"] ELSE [kind |-> "error"]

Throw(p, at) ==
  /\ Finish(p, Caught(call[p].op),
            [gh EXCEPT ![p].failed = TRUE, ![p].failedAt = at])
  /\ UNCHANGED <<vault, cache, heap, now, call, loc, ext, lastWrite, concurrent>>

\* the vault throws although nothing is wrong with the request
Fails(p, at) ==
  /\ pc[p] = at
  /\ MayAct
  /\ budget' = budget + 1
  /\ Throw(p, at)
  /\ UNCHANGED <<apiVars, fnVars, plug>>

Called(p, op, path, book, isbn, updates) ==
  /\ CanCall(p)
  /\ call' = [call EXCEPT ![p] = [op |-> op, path |-> path, book |-> book,
                                  isbn |-> isbn, updates |-> updates]]
  /\ budget' = budget + 1
  /\ UNCHANGED <<vault, cache, heap, now, loc, ext, lastWrite, concurrent>>
  /\ UNCHANGED <<apiVars, fnVars, plug>>

\* ensureBaseFile up to its await
CallEnsure(p, path) ==
  /\ Called(p, "ensure", path, <<>>, Undef, <<>>)
  /\ IF vault[path].exists
     THEN Finish(p, [kind |-> "void"], [gh EXCEPT ![p] = Begin(p, path)])
     ELSE /\ pc' = [pc EXCEPT ![p] = "create"]
          /\ gh' = Disturb([gh EXCEPT ![p] = Begin(p, path)], p)
          /\ UNCHANGED result

\* addBookToBase up to its first await: ensureBaseFile creates the file, or
\* the file is there and getCachedBaseData asks for its mtime
CallAdd(p, path, book) ==
  /\ Called(p, "add", path, book, Undef, <<>>)
  /\ pc' = [pc EXCEPT ![p] = IF vault[path].exists THEN "stat" ELSE "create"]
  /\ gh' = Disturb([gh EXCEPT ![p] = Begin(p, path)], p)
  /\ UNCHANGED result

\* the stored texts of a path are short enough for a read to be explored
ShortTexts(path) ==
  \A d \in {View(path)} \cup {heap[i] : i \in {cache[path].data} \cap ObjIds} :
    d # Null =>
      \A i \in 1..Len(d.entries) : \A k \in {"Title", "Author"} :
        LET v == Field(d.entries[i], k) IN IsStr(v) => Len(v.s) <= MaxText

\* updateBookInBase up to its first await
CallUpdate(p, path, isbn, updates) ==
  /\ ShortTexts(path)
  /\ Called(p, "update", path, <<>>, isbn, updates)
  /\ IF vault[path].exists
     THEN /\ pc' = [pc EXCEPT ![p] = "stat"]
          /\ gh' = Disturb([gh EXCEPT ![p] = Begin(p, path)], p)
          /\ UNCHANGED result
     ELSE Finish(p, [kind |-> "error"], [gh EXCEPT ![p] = Begin(p, path)])

\* getBookFromBase up to its first await
CallGet(p, path, isbn) ==
  /\ ShortTexts(path)
  /\ Called(p, "get", path, <<>>, isbn, <<>>)
  /\ IF vault[path].exists
     THEN /\ pc' = [pc EXCEPT ![p] = "stat"]
          /\ gh' = Disturb([gh EXCEPT ![p] = Begin(p, path)], p)
          /\ UNCHANGED result
     ELSE Finish(p, [kind |-> "null"], [gh EXCEPT ![p] = Begin(p, path)])

\* vault.create(filePath, baseContent): throws when the file exists by now
Create(p) ==
  /\ pc[p] = "create"
  /\ UNCHANGED budget
  /\ IF vault[call[p].path].exists
     THEN Throw(p, "create")
     ELSE /\ vault' = [vault EXCEPT ![call[p].path] =
                         [exists |-> TRUE, content |-> createEmptyBaseContent,
                          mtime |-> now]]
          /\ IF call[p].op = "ensure"
             THEN Finish(p, [kind |-> "void"], [gh EXCEPT ![p].creates = @ + 1])
             ELSE /\ pc' = [pc EXCEPT ![p] = "stat"]
                  /\ gh' = Disturb([gh EXCEPT ![p].creates = @ + 1], p)
                  /\ UNCHANGED result
          /\ UNCHANGED <<cache, heap, now, call, loc, ext, lastWrite, concurrent>>
  /\ UNCHANGED <<apiVars, fnVars, plug>>

CreateFails(p) == Fails(p, "create")

\* vault.adapter.stat(filePath)
Stat(p) ==
  /\ pc[p] = "stat"
  /\ loc' = [loc EXCEPT ![p].lastModified = StatTime(vault[call[p].path])]
  /\ pc' = [pc EXCEPT ![p] = "lookup"]
  /\ gh' = Disturb(gh, p)
  /\ UNCHANGED <<vault, cache, heap, now, call, result, ext, lastWrite, budget,
                 concurrent>>
  /\ UNCHANGED <<apiVars, fnVars, plug>>

StatFails(p) == Fails(p, "stat")

\* as Lookup, had a hit refreshed the time of the cache entry
LookupRefreshing(p) ==
  /\ pc[p] = "lookup"
  /\ IF CacheFresh(cache[call[p].path], loc[p].lastModified)
     THEN /\ loc' = [loc EXCEPT ![p].baseData = cache[call[p].path].data]
          /\ cache' = [cache EXCEPT ![call[p].path].lastModified = now]
          /\ pc' = [pc EXCEPT ![p] = "loaded"]
          /\ gh' = Disturb([gh EXCEPT ![p].hit = TRUE], p)
     ELSE /\ pc' = [pc EXCEPT ![p] = "read"]
          /\ gh' = Disturb(gh, p)
          /\ UNCHANGED <<loc, cache>>
  /\ UNCHANGED <<vault, heap, now, call, result, ext, lastWrite, budget,
                 concurrent>>
  /\ UNCHANGED <<apiVars, fnVars, plug>>

\* getCachedBaseData after the stat: return cached.data itself, or go on to
\* read the file
Lookup(p) ==
  /\ pc[p] = "lookup"
  /\ IF CacheFresh(cache[call[p].path], loc[p].lastModified)
     THEN /\ loc' = [loc EXCEPT ![p].baseData = cache[call[p].path].data]
          /\ pc' = [pc EXCEPT ![p] = "loaded"]
          /\ gh' = Disturb([gh EXCEPT ![p].hit = TRUE], p)
     ELSE /\ pc' = [pc EXCEPT ![p] = "read"]
          /\ gh' = Disturb(gh, p)
          /\ UNCHANGED loc
  /\ UNCHANGED <<vault, cache, heap, now, call, result, ext, lastWrite, budget,
                 concurrent>>
  /\ UNCHANGED <<apiVars, fnVars, plug>>

\* vault.read(file)
Read(p) ==
  /\ pc[p] = "read"
  /\ loc' = [loc EXCEPT ![p].content = vault[call[p].path].content]
  /\ pc' = [pc EXCEPT ![p] = "parse"]
  /\ gh' = Disturb([gh EXCEPT ![p].reads = @ + 1], p)
  /\ UNCHANGED <<vault, cache, heap, now, call, result, ext, lastWrite, budget,
                 concurrent>>
  /\ UNCHANGED <<apiVars, fnVars, plug>>

ReadFails(p) == Fails(p, "read")

\* updateCache: the entry that cache.set stores for the clone with id
\* (lastModified || Date.now(); an absent argument is 0 here)
updateCache(id, lastModified) ==
  [data |-> id,
   lastModified |-> IF lastModified # 0 THEN lastModified ELSE now]

\* getCachedBaseData after the read: parse, store a clone in the cache under
\* the mtime seen by the stat, return the parsed collection
Parse(p) ==
  /\ pc[p] = "parse"
  /\ UNCHANGED budget
  /\ LET parsed == parseBaseContent(loc[p].content)
         path == call[p].path
     IN IF ~parsed.ok
        THEN Throw(p, "parse")
        ELSE LET c == [cache EXCEPT ![path] = updateCache(NewId2, loc[p].lastModified)]
                 l == [loc EXCEPT ![p].baseData = NewId]
             IN /\ cache' = c
                /\ loc' = l
                /\ heap' = Collect([heap EXCEPT ![NewId] = parsed.data,
                                                ![NewId2] = parsed.data], c, l)
                /\ pc' = [pc EXCEPT ![p] = "loaded"]
                /\ gh' = Disturb(gh, p)
                /\ UNCHANGED <<vault, now, call, result, ext, lastWrite, concurrent>>
  /\ UNCHANGED <<apiVars, fnVars, plug>>

\* addBookToBase after the load: the duplicate check, then the push onto
\* the loaded collection and the request to write it
AddLoaded(p) ==
  /\ pc[p] = "loaded" /\ call[p].op = "add"
  /\ LET baseData == heap[loc[p].baseData]
     IN IF isDuplicate(baseData.entries, Field(call[p].book, "isbn"))
        THEN /\ Finish(p, [kind |-> "bool", value |-> FALSE], gh)
             /\ UNCHANGED <<heap, loc>>
        ELSE LET pushed == [baseData EXCEPT !.entries =
                              Append(@, bookDataToBaseEntry(call[p].book))]
             IN /\ heap' = [heap EXCEPT ![loc[p].baseData] = pushed]
                /\ loc' = [loc EXCEPT ![p].updatedContent = stringify(pushed)]
                /\ pc' = [pc EXCEPT ![p] = "modify"]
                /\ gh' = Disturb(gh, p)
                /\ UNCHANGED result
  /\ UNCHANGED <<vault, cache, now, call, ext, lastWrite, budget, concurrent>>
  /\ UNCHANGED <<apiVars, fnVars, plug>>

\* the record that updateBookInBase stores in place of the entry it found
mergeUpdates(entry, updates) ==
  bookDataToBaseEntry(Spread(baseEntryToBookData(entry), updates))

\* updateBookInBase after the load
UpdateLoaded(p) ==
  /\ pc[p] = "loaded" /\ call[p].op = "update"
  /\ LET baseData == heap[loc[p].baseData]
         entryIndex == findIndex(baseData.entries, call[p].isbn)
     IN IF entryIndex = 0
        THEN /\ Finish(p, [kind |-> "bool", value |-> FALSE], gh)
             /\ UNCHANGED <<heap, loc>>
        ELSE LET replaced == [baseData EXCEPT !.entries[entryIndex] =
                                mergeUpdates(@, call[p].updates)]
             IN /\ heap' = [heap EXCEPT ![loc[p].baseData] = replaced]
                /\ loc' = [loc EXCEPT ![p].updatedContent = stringify(replaced)]
                /\ pc' = [pc EXCEPT ![p] = "modify"]
                /\ gh' = Disturb(gh, p)
                /\ UNCHANGED result
  /\ UNCHANGED <<vault, cache, now, call, ext, lastWrite, budget, concurrent>>
  /\ UNCHANGED <<apiVars, fnVars, plug>>

\* what getBookFromBase returns for the loaded collection
getResult(entries, isbn) ==
  IF findIndex(entries, isbn) = 0
  THEN [kind |-> "null"]
  ELSE [kind |-> "record",
        value |-> baseEntryToBookData(entries[findIndex(entries, isbn)])]

\* getBookFromBase after the load
GetLoaded(p) ==
  /\ pc[p] = "loaded" /\ call[p].op = "get"
  /\ Finish(p, getResult(heap[loc[p].baseData].entries, call[p].isbn), gh)
  /\ UNCHANGED <<vault, cache, heap, now, call, loc, ext, lastWrite, budget,
                 concurrent>>
  /\ UNCHANGED <<apiVars, fnVars, plug>>

\* as Modify, had the write added to what the file holds by now
ModifyMerging(p) ==
  /\ pc[p] = "modify"
  /\ LET held == vault[call[p].path].content.value.entries
         added == SelectSeq(loc[p].updatedContent.value.entries,
                            LAMBDA e : ~isDuplicate(held, Field(e, "ISBN")))
     IN vault' = [vault EXCEPT ![call[p].path] =
                    [exists |-> TRUE,
                     content |-> Json([fields |-> BaseFields, entries |-> held \o added]),
                     mtime |-> now]]
  /\ lastWrite' = [lastWrite EXCEPT ![call[p].path] = [valid |-> FALSE]]
  /\ pc' = [pc EXCEPT ![p] = "written"]
  /\ gh' = Disturb([gh EXCEPT ![p].writes = @ + 1], p)
  /\ UNCHANGED <<cache, heap, now, call, loc, result, ext, budget, concurrent>>
  /\ UNCHANGED <<apiVars, fnVars, plug>>

\* vault.modify(file, updatedContent)
Modify(p) ==
  /\ pc[p] = "modify"
  /\ vault' = [vault EXCEPT ![call[p].path] =
                 [exists |-> TRUE, content |-> loc[p].updatedContent,
                  mtime |-> now]]
  /\ lastWrite' = [lastWrite EXCEPT ![call[p].path] = [valid |-> FALSE]]
  /\ pc' = [pc EXCEPT ![p] = "written"]
  /\ gh' = Disturb([gh EXCEPT ![p].writes = @ + 1], p)
  /\ UNCHANGED <<cache, heap, now, call, loc, result, ext, budget, concurrent>>
  /\ UNCHANGED <<apiVars, fnVars, plug>>

ModifyFails(p) == Fails(p, "modify")

\* the identifiers of a collection
ISBNsOf(entries) == {Field(entries[i], "ISBN") : i \in 1..Len(entries)}

\* after the write: updateCache(filePath, baseData) stores a clone of the
\* collection as it is now under Date.now(), and the call returns true
Written(p) ==
  /\ pc[p] = "written"
  /\ LET path == call[p].path
         c == [cache EXCEPT ![path] = updateCache(NewId, 0)]
     IN /\ cache' = c
        /\ heap' = Collect([heap EXCEPT ![NewId] = heap[loc[p].baseData]], c, loc)
        /\ lastWrite' = [lastWrite EXCEPT ![path] =
             [valid |-> TRUE, op |-> call[p].op, book |-> call[p].book,
              isbns |-> ISBNsOf(loc[p].updatedContent.value.entries)]]
  /\ Finish(p, [kind |-> "bool", value |-> TRUE], gh)
  /\ UNCHANGED <<vault, now, call, loc, ext, budget, concurrent>>
  /\ UNCHANGED <<apiVars, fnVars, plug>>

\* the caller has its result; the locals of the call are gone
Return(p) ==
  /\ pc[p] = "done"
  /\ pc' = [pc EXCEPT ![p] = "idle"]
  /\ call' = [call EXCEPT ![p] = NoCall]
  /\ loc' = [loc EXCEPT ![p] = NoLoc]
  /\ result' = [result EXCEPT ![p] = NoResult]
  /\ gh' = [gh EXCEPT ![p] = NoGhost]
  /\ heap' = Collect(heap, cache, [loc EXCEPT ![p] = NoLoc])
  /\ UNCHANGED <<vault, cache, now, ext, lastWrite, budget, concurrent>>
  /\ UNCHANGED <<apiVars, fnVars, plug>>

(***************************************************************************)
(* The environment                                                         *)
(***************************************************************************)
\* the file is edited outside the store
ExternalModify(path, content) ==
  /\ EnvMayAct
  /\ vault[path].exists
  /\ MayAct
  /\ vault[path].content # content
  /\ vault' = [vault EXCEPT ![path].content = content, ![path].mtime = now]
  /\ ext' = [ext EXCEPT ![path] = TRUE]
  /\ lastWrite' = [lastWrite EXCEPT ![path] = [valid |-> FALSE]]
  /\ budget' = budget + 1
  /\ gh' = Disturb(gh, "env")
  /\ UNCHANGED <<cache, heap, now, pc, call, loc, result, concurrent>>
  /\ UNCHANGED <<apiVars, fnVars, plug>>

\* time passes
Tick(d) ==
  /\ MayAct
  /\ now' = now + d
  /\ budget' = budget + 1
  /\ UNCHANGED <<vault, cache, heap, pc, call, loc, result, gh, ext, lastWrite,
                 concurrent>>
  /\ UNCHANGED <<apiVars, fnVars, plug>>

\* this.cache.delete(filePath)
ClearCache(path) ==
  /\ EnvMayAct
  /\ MayAct
  /\ cache' = [cache EXCEPT ![path] = NoEntry]
  /\ heap' = Collect(heap, cache', loc)
  /\ budget' = budget + 1
  /\ gh' = Disturb(gh, "env")
  /\ UNCHANGED <<vault, now, pc, call, loc, result, ext, lastWrite, concurrent>>
  /\ UNCHANGED <<apiVars, fnVars, plug>>

\* this.cache.clear()
ClearCacheAll ==
  /\ EnvMayAct
  /\ MayAct
  /\ cache' = [f \in Paths |-> NoEntry]
  /\ heap' = Collect(heap, cache', loc)
  /\ budget' = budget + 1
  /\ gh' = Disturb(gh, "env")
  /\ UNCHANGED <<vault, now, pc, call, loc, result, ext, lastWrite, concurrent>>
  /\ UNCHANGED <<apiVars, fnVars, plug>>

\* the arguments clearCache is called with: none, the empty string, a path
ClearInputs == {Undef, Str("")} \cup {Str(f) : f \in Paths}

\* if (filePath): undefined and the empty string are falsy
HasPath(filePath) == IsStr(filePath) /\ filePath.s # ""

\* BaseManager.clearCache(filePath?)
clearCache(filePath) ==
  IF HasPath(filePath) THEN ClearCache(filePath.s) ELSE ClearCacheAll

\* the interval timer of startCacheCleanup fires and finds an entry to drop
Sweep ==
  /\ EnvMayAct
  /\ \E f \in Paths : cache[f] # NoEntry /\ now - cache[f].lastModified > CACHE_TTL
  /\ cache' = [f \in Paths |->
                 IF cache[f] # NoEntry /\ now - cache[f].lastModified > CACHE_TTL
                 THEN NoEntry ELSE cache[f]]
  /\ heap' = Collect(heap, cache', loc)
  /\ gh' = Disturb(gh, "env")
  /\ UNCHANGED <<vault, now, pc, call, loc, result, ext, lastWrite, budget,
                 concurrent>>
  /\ UNCHANGED <<apiVars, fnVars, plug>>

Next ==
  \/ \E p \in Procs, path \in EnsureInputs : CallEnsure(p, path)
  \/ \E p \in Procs, in \in AddInputs : CallAdd(p, in[1], in[2])
  \/ \E p \in Procs, in \in UpdateInputs : CallUpdate(p, in[1], in[2], in[3])
  \/ \E p \in Procs, in \in GetInputs : CallGet(p, in[1], in[2])
  \/ \E p \in Procs : Create(p)
  \/ \E p \in Procs : CreateFails(p)
  \/ \E p \in Procs : Stat(p)
  \/ \E p \in Procs : StatFails(p)
  \/ \E p \in Procs : Lookup(p)
  \/ \E p \in Procs : Read(p)
  \/ \E p \in Procs : ReadFails(p)
  \/ \E p \in Procs : Parse(p)
  \/ \E p \in Procs : AddLoaded(p)
  \/ \E p \in Procs : UpdateLoaded(p)
  \/ \E p \in Procs : GetLoaded(p)
  \/ \E p \in Procs : Modify(p)
  \/ \E p \in Procs : ModifyFails(p)
  \/ \E p \in Procs : Written(p)
  \/ \E p \in Procs : Return(p)
  \/ \E path \in Paths, content \in ExternalContents : ExternalModify(path, content)
  \/ \E d \in TickSteps : Tick(d)
  \/ \E filePath \in ClearInputs : clearCache(filePath)
  \/ Sweep

\* calls are made one after the other
Spec == Init /\ [][Next]_vars

InitConcurrent ==
  /\ vault = [f \in Paths |-> NoFile]
  /\ cache = [f \in Paths |-> NoEntry]
  /\ heap = [i \in ObjIds |-> Null]
  /\ now = 1
  /\ pc = [p \in Procs |-> "idle"]
  /\ call = [p \in Procs |-> NoCall]
  /\ loc = [p \in Procs |-> NoLoc]
  /\ result = [p \in Procs |-> NoResult]
  /\ gh = [p \in Procs |-> NoGhost]
  /\ ext = [f \in Paths |-> FALSE]
  /\ lastWrite = [f \in Paths |-> [valid |-> FALSE]]
  /\ budget = 0
  /\ concurrent = TRUE
  /\ ApiAtRest
  /\ FnAtRest
  /\ PluginAtRest

\* the steps of the calls and of the clock, without failures of the vault
\* and without edits, clearCache or the timer
NextConcurrent ==
  \/ \E p \in Procs, path \in EnsureInputs : CallEnsure(p, path)
  \/ \E p \in Procs, in \in AddInputs : CallAdd(p, in[1], in[2])
  \/ \E p \in Procs, in \in UpdateInputs : CallUpdate(p, in[1], in[2], in[3])
  \/ \E p \in Procs, in \in GetInputs : CallGet(p, in[1], in[2])
  \/ \E p \in Procs : Create(p)
  \/ \E p \in Procs : Stat(p)
  \/ \E p \in Procs : Lookup(p)
  \/ \E p \in Procs : Read(p)
  \/ \E p \in Procs : Parse(p)
  \/ \E p \in Procs : AddLoaded(p)
  \/ \E p \in Procs : UpdateLoaded(p)
  \/ \E p \in Procs : GetLoaded(p)
  \/ \E p \in Procs : Modify(p)
  \/ \E p \in Procs : Written(p)
  \/ \E p \in Procs : Return(p)
  \/ \E d \in TickSteps : Tick(d)

\* two callers, whose calls may overlap; the second caller is the one that
\* calls while the first has a call in flight
SpecConcurrent == InitConcurrent /\ [][NextConcurrent]_vars

(***************************************************************************)
(* OpenLibraryAPI: the rate limit of fetchBookData.  checkRateLimit chains *)
(* its gate on rateLimitLock, so the gates run one after the other; the    *)
(* request is recorded later, by the caller that was let through.          *)
(***************************************************************************)
RATE_LIMIT == 10

\* RATE_WINDOW = 60 * 1000
RATE_WINDOW == 60000

\* the 100 ms added to the wait of a gate
SleepBuffer == 100

\* how many requests earlier calls have recorded, a second before the calls
\* that the model follows
PriorRequests == {0, RATE_LIMIT - 1, RATE_LIMIT}

\* how far the clock of the model runs
MaxApiTime == 130000

\* requests.filter(timestamp => now - timestamp < RATE_WINDOW)
InWindow(stamps, t) == SelectSeq(stamps, LAMBDA x : t - x < RATE_WINDOW)

\* Math.min(...requests)
OldestRequest(stamps) ==
  CHOOSE x \in {stamps[i] : i \in 1..Len(stamps)} :
    \A i \in 1..Len(stamps) : x <= stamps[i]

\* BaseManager with an empty vault and an empty cache, no call made
StoreAtRest ==
  /\ vault = [f \in Paths |-> NoFile]
  /\ cache = [f \in Paths |-> NoEntry]
  /\ heap = [i \in ObjIds |-> Null]
  /\ now = 1
  /\ pc = [p \in Procs |-> "idle"]
  /\ call = [p \in Procs |-> NoCall]
  /\ loc = [p \in Procs |-> NoLoc]
  /\ result = [p \in Procs |-> NoResult]
  /\ gh = [p \in Procs |-> NoGhost]
  /\ ext = [f \in Paths |-> FALSE]
  /\ lastWrite = [f \in Paths |-> [valid |-> FALSE]]
  /\ budget = 0
  /\ concurrent = FALSE

InitRate ==
  /\ StoreAtRest
  /\ time = 1000
  /\ \E k \in PriorRequests :
       /\ requests = [i \in 1..k |-> 0]
       /\ sent = [i \in 1..k |-> 0]
  /\ lock = <<>>
  /\ fpc = [f \in Fetchers |-> NoFetch]
  /\ wake = [f \in Fetchers |-> 0]
  /\ FnAtRest
  /\ PluginAtRest

\* checkRateLimit up to its await, in the call f that has come as far as
\* from: the gate is chained on rateLimitLock
checkRateLimit(f, from, source) ==
  /\ lock' = Append(lock, f)
  /\ fpc' = [fpc EXCEPT ![f] = [from EXCEPT !.at = "gate", !.source = source]]

\* the arguments that the calls of fetchBookData are given
LookupISBNs ==
  {Str(ISBN10), Str(ISBN10Hyphens), Str(ISBN13Bad), Str(<<"1", "2", "3">>), Str(<<>>)}

\* validateISBNWithDetails
validateISBNWithDetails == [isbn \in LookupISBNs |-> validateISBN(isbn)]

\* fetchBookData up to the await of the first gate, or to its throw for an
\* invalid ISBN
FetchBookData(f, isbn) ==
  /\ fpc[f].at = "idle"
  /\ IF validateISBNWithDetails[isbn].success
     THEN checkRateLimit(f, [fpc[f] EXCEPT !.isbn = isbn], "openlibrary")
     ELSE /\ fpc' = [fpc EXCEPT ![f].at = "thrown", ![f].isbn = isbn]
          /\ UNCHANGED lock
  /\ UNCHANGED <<time, requests, wake, sent, storeVars, fnVars, plug>>

\* the gate of f runs, the gates before it being through: it drops the old
\* stamps and, at the limit, sleeps until the oldest has left the window
Gate(f) ==
  /\ fpc[f].at = "gate"
  /\ lock # <<>> /\ Head(lock) = f
  /\ LET kept == InWindow(requests, time)
         waitTime == RATE_WINDOW - (time - OldestRequest(kept)) + SleepBuffer
     IN /\ requests' = kept
        /\ IF Len(kept) >= RATE_LIMIT /\ waitTime > 0
           THEN /\ fpc' = [fpc EXCEPT ![f].at = "sleep"]
                /\ wake' = [wake EXCEPT ![f] = time + waitTime]
                /\ UNCHANGED lock
           ELSE /\ fpc' = [fpc EXCEPT ![f].at = "passed",
                                       ![f].log = Append(@, "check")]
                /\ lock' = Tail(lock)
                /\ UNCHANGED wake
  /\ UNCHANGED <<time, sent, storeVars, fnVars, plug>>

\* the sleep of the gate is over; the gate checks nothing again
Wake(f) ==
  /\ fpc[f].at = "sleep"
  /\ time >= wake[f]
  /\ fpc' = [fpc EXCEPT ![f].at = "passed", ![f].log = Append(@, "check")]
  /\ lock' = Tail(lock)
  /\ UNCHANGED <<time, requests, wake, sent, storeVars, fnVars, plug>>

\* recordRequest, at the start of fetchFromBookSearchAPI or
\* fetchFromGoogleBooksAPI
recordRequest(f) ==
  /\ fpc[f].at = "passed"
  /\ requests' = InWindow(Append(requests, time), time)
  /\ sent' = Append(sent, time)
  /\ fpc' = [fpc EXCEPT ![f].at = "asked", ![f].log = Append(@, fpc[f].source)]
  /\ UNCHANGED <<time, lock, wake, storeVars, fnVars, plug>>

\* what fetchFromBookSearchAPI returns: null, or a record with a title and
\* an author, maybe the placeholders, and the optional fields it could extract
Answer(title, author, pages, publisher, description, genre) ==
  [title |-> title, author |-> author, pages |-> pages, publisher |-> publisher,
   description |-> description, genre |-> genre]

UnknownTitle == Str(<<"Unknown Title">>)

UnknownAuthor == Str(<<"Unknown Author">>)

\* isOpenLibraryComplete with one optional field being enough
isOpenLibraryCompleteWithOne(openLibraryData) ==
  /\ openLibraryData # JsNull
  /\ Truthy(openLibraryData.title) /\ Truthy(openLibraryData.author)
  /\ openLibraryData.author # UnknownAuthor
  /\ openLibraryData.title # UnknownTitle
  /\ \E x \in {"pages", "publisher", "description", "genre"} :
       Truthy(openLibraryData[x])

\* isOpenLibraryComplete
isOpenLibraryComplete(openLibraryData) ==
  /\ openLibraryData # JsNull
  /\ Truthy(openLibraryData.title) /\ Truthy(openLibraryData.author)
  /\ openLibraryData.author # UnknownAuthor
  /\ openLibraryData.title # UnknownTitle
  /\ Cardinality({x \in {"pages", "publisher", "description", "genre"} :
                    Truthy(openLibraryData[x])}) >= 2

\* the answers of Open Library that the lookups of the model get
OpenLibraryAnswers ==
  {JsNull}
    \cup {Answer(t, a, pg, pb, d, g) :
            t \in {Str(<<"D", "u", "n", "e">>), UnknownTitle},
            a \in {Str(<<"F", "H">>), UnknownAuthor},
            pg \in {Undef, Num(412)}, pb \in {Undef, Str(<<"A", "c", "e">>)},
            d \in {Undef, Str(<<"d">>)}, g \in {Undef}}
    \cup {Answer(Str(<<"D", "u", "n", "e">>), Str(<<"F", "H">>), pg, Undef, Undef, g) :
            pg \in {Undef, Num(412)}, g \in {Str(<<"S", "F">>)}}

\* the answers that matter to the rate limit: none, and a complete one
RateAnswers ==
  {JsNull, Answer(Str(<<"D", "u", "n", "e">>), Str(<<"F", "H">>), Num(412),
                  Str(<<"A", "c", "e">>), Undef, Undef)}

\* the answer is there: fetchBookData returns what Open Library knows when
\* that is complete, and asks Google Books otherwise, after another gate;
\* what Google Books answers it returns or merges, and asks no more
Respond(f, answer) ==
  /\ fpc[f].at = "asked"
  /\ IF fpc[f].source = "openlibrary"
     THEN IF isOpenLibraryComplete(answer)
          THEN /\ fpc' = [fpc EXCEPT ![f].at = "done", ![f].openLibraryData = answer]
               /\ UNCHANGED lock
          ELSE checkRateLimit(f, [fpc[f] EXCEPT !.openLibraryData = answer], "google")
     ELSE /\ fpc' = [fpc EXCEPT ![f].at = "done"]
          /\ UNCHANGED lock
  /\ UNCHANGED <<time, requests, wake, sent, storeVars, fnVars, plug>>

\* time passes: half a window, or up to the end of a sleep
TickApi ==
  /\ \E t \in {time + RATE_WINDOW \div 2}
               \cup {wake[f] : f \in {g \in Fetchers : fpc[g].at = "sleep"}} :
       /\ t > time /\ t <= MaxApiTime
       /\ time' = t
  /\ UNCHANGED <<requests, lock, fpc, wake, sent, storeVars, fnVars, plug>>

NextRate ==
  \/ \E f \in Fetchers : FetchBookData(f, Str(ISBN10))
  \/ \E f \in Fetchers : Gate(f)
  \/ \E f \in Fetchers : Wake(f)
  \/ \E f \in Fetchers : recordRequest(f)
  \/ \E f \in Fetchers, answer \in RateAnswers : Respond(f, answer)
  \/ TickApi

\* calls of fetchBookData that overlap
SpecRate == InitRate /\ [][NextRate]_vars

\* one call of fetchBookData, with any argument and any answer
NextLookup ==
  \/ \E isbn \in LookupISBNs : FetchBookData("f1", isbn)
  \/ Gate("f1")
  \/ Wake("f1")
  \/ recordRequest("f1")
  \/ \E answer \in OpenLibraryAnswers : Respond("f1", answer)
  \/ TickApi

SpecLookup == InitRate /\ [][NextLookup]_vars

(***************************************************************************)
(* The static functions of ValidationUtils, applied to an argument.  arg   *)
(* is the argument; ret names the function, tells what it was applied on  *)
(* (the input drawn, or an argument derived from the call before: its      *)
(* output, the input stripped, the input altered), and holds what it       *)
(* returned and what the call on the input had returned.                   *)
(***************************************************************************)
Returns(fn, on, out) ==
  ret' = [fn |-> fn, on |-> on, out |-> out,
          first |-> IF on = "input" THEN out ELSE ret.first]

\* the strings of length 0..n over the characters of alphabet
RECURSIVE Strings(_, _)
Strings(alphabet, n) ==
  IF n = 0 THEN {<<>>}
  ELSE LET shorter == Strings(alphabet, n - 1)
       IN shorter \cup {Append(s, c) : s \in {t \in shorter : Len(t) = n - 1}, c \in alphabet}

MaxDisplayLen == 2

DisplayChars == {"a", " ", "&", ";", "#", "<", "'", "/", "U+FF06"}

DisplayInputs == {Str(s) : s \in Strings(DisplayChars, MaxDisplayLen)} \cup {Num(7), Undef}

InitDisplay ==
  /\ StoreAtRest /\ ApiAtRest /\ PluginAtRest
  /\ arg \in DisplayInputs
  /\ ret = NoReturn

\* sanitizeForDisplay(arg)
CallSanitizeForDisplay ==
  /\ ret = NoReturn
  /\ Returns("sanitizeForDisplay", "input", sanitizeForDisplay(arg))
  /\ UNCHANGED <<arg, storeVars, apiVars, plug>>

\* sanitizeForDisplay(r.data), r being the successful result of the call before
AgainSanitizeForDisplay ==
  /\ ret.fn = "sanitizeForDisplay" /\ ret.on = "input" /\ ret.out.success
  /\ arg' = Str(ret.out.data)
  /\ Returns("sanitizeForDisplay", "output", sanitizeForDisplay(arg'))
  /\ UNCHANGED <<storeVars, apiVars, plug>>

NextDisplay ==
  \/ CallSanitizeForDisplay
  \/ AgainSanitizeForDisplay

SpecDisplay == InitDisplay /\ [][NextDisplay]_vars

MaxNameLen == 4

NameChars == {".", "-", "/", "\\", " ", "a", "U+0001"}

\* n times the character c
NamePrefixes ==
  {<<>>, <<".", ".", "/">>, <<".", ".", "\\">>, <<"U+FF0F">>, <<".", "U+0001", ".", "/">>}

NameStems ==
  {<<>>, <<"a">>, <<"C", "O", "N">>, <<"c", "o", "n">>, <<"L", "P", "T", "1">>,
   Repeat("a", MaxNameLength - 1), Repeat("a", MaxNameLength + 1)}

NameSuffixes ==
  {<<>>, <<".", "j", "s">>, <<".", "J", "S">>, <<".", "s", "h">>, <<".", "t", "x", "t">>,
   <<".">>, <<".", " ", "b">>, <<" ", "-">>, <<"/", ".", ".">>}

NameInputs ==
  {Str(s) : s \in Strings(NameChars, MaxNameLen)}
    \cup {Str(pre \o stem \o suf) :
            pre \in NamePrefixes, stem \in NameStems, suf \in NameSuffixes}
    \cup {Num(7), Undef}

InitFileName ==
  /\ StoreAtRest /\ ApiAtRest /\ PluginAtRest
  /\ arg \in NameInputs
  /\ ret = NoReturn

\* sanitizeFileName(arg)
CallSanitizeFileName ==
  /\ ret = NoReturn
  /\ Returns("sanitizeFileName", "input", sanitizeFileName(arg))
  /\ UNCHANGED <<arg, storeVars, apiVars, plug>>

\* sanitizeFileName(r.data), r being the successful result of the call before
AgainSanitizeFileName ==
  /\ ret.fn = "sanitizeFileName" /\ ret.on = "input" /\ ret.out.success
  /\ arg' = Str(ret.out.data)
  /\ Returns("sanitizeFileName", "output", sanitizeFileName(arg'))
  /\ UNCHANGED <<storeVars, apiVars, plug>>

NextFileName ==
  \/ CallSanitizeFileName
  \/ AgainSanitizeFileName

SpecFileName == InitFileName /\ [][NextFileName]_vars

ISBN10X == <<"0", "8", "0", "4", "4", "2", "9", "5", "7", "X">>

\* s with the character at position pos replaced by c
Alter(s, pos, c) == [s EXCEPT ![pos] = c]

\* characters that are no digit, X, hyphen or whitespace
OtherChars == {"a", "x", ".", "/", "<", "&", "U+FF06", "U+FF10"}

ISBNTexts ==
  {ISBN10, ISBN10Hyphens, ISBN10X, ISBN13, ISBN13Bad,
   <<"0", " ", "3", "0", "6", " ", "4", "0", "6", "1", "5", " ", "2">>,
   <<" ", "0", "8", "0", "4", "-", "4", "2", "9", "5", "-", "7", "X", " ">>,
   <<"9", "7", "8", "-", "0", "3", "0", "6", "4", "0", "6", "1", "5", "7">>,
   <<"X", "3", "0", "6", "4", "0", "6", "1", "5", "2">>,
   <<"-">>, <<" ", "-", " ">>,
   Repeat(" ", DisplayLimit) \o ISBN10,
   ISBN13 \o <<"0">>}
    \cup {SubSeq(ISBN13, 1, n) : n \in 0..12}
    \cup {Alter(ISBN10, pos, d) : pos \in 1..10, d \in Digits \cup {"X"}}
    \cup {Alter(ISBN13, pos, d) : pos \in 1..13, d \in Digits}
    \cup {Alter(ISBN10X, pos, c) : pos \in 1..10, c \in OtherChars}
    \cup {Alter(ISBN10Hyphens, pos, c) : pos \in {1, 2, 13}, c \in OtherChars}

ISBNInputs == {Str(s) : s \in ISBNTexts} \cup {Num(306406152), Undef}

InitISBN ==
  /\ StoreAtRest /\ ApiAtRest /\ PluginAtRest
  /\ arg \in ISBNInputs
  /\ ret = NoReturn

\* validateISBN(arg)
CallValidateISBN ==
  /\ ret = NoReturn
  /\ Returns("validateISBN", "input", validateISBN(arg))
  /\ UNCHANGED <<arg, storeVars, apiVars, plug>>

\* validateISBN on the input without its hyphens and whitespace
ValidateStripped ==
  /\ ret.fn = "validateISBN" /\ ret.on = "input" /\ IsStr(arg)
  /\ arg' = Str(StripSeparators(arg.s))
  /\ Returns("validateISBN", "stripped", validateISBN(arg'))
  /\ UNCHANGED <<storeVars, apiVars, plug>>

\* validateISBN on an accepted ISBN-10 with one digit replaced by another
ValidateAltered(pos, d) ==
  /\ ret.fn = "validateISBN" /\ ret.on = "input"
  /\ ret.out.success /\ Len(ret.out.data) = 10
  /\ pos \in 1..Len(arg.s) /\ arg.s[pos] \in Digits /\ d # arg.s[pos]
  /\ arg' = Str(Alter(arg.s, pos, d))
  /\ Returns("validateISBN", "altered", validateISBN(arg'))
  /\ UNCHANGED <<storeVars, apiVars, plug>>

NextISBN ==
  \/ CallValidateISBN
  \/ ValidateStripped
  \/ \E pos \in 1..13, d \in Digits : ValidateAltered(pos, d)

SpecISBN == InitISBN /\ [][NextISBN]_vars

\* what the callers pass as validator
Validators == {"isBaseFileData", "accepting", "rejecting", "throwing"}

\* the books of the model, each also with a marker in its title or its author
DecodeBooks ==
  LET books == {BookA, BookB, BookC, BookX}
  IN books
       \cup {[b EXCEPT !.title = Str(protoMarker)] : b \in books}
       \cup {[b EXCEPT !.author = Str(<<"a", " ">> \o prototypeMarker)] : b \in books}

\* texts of collections, with and without the entries key
JsonTexts ==
  {stringify([fields |-> BaseFields, entries |-> <<bookDataToBaseEntry(b)>>]) :
     b \in DecodeBooks}
    \cup {createEmptyBaseContent, Json([fields |-> BaseFields]), Json(Num(5))}

\* texts that are no JSON
MalformedTexts ==
  {Malformed, MalformedText(<<"{">>), MalformedText(<<"{", "\"">> \o protoMarker),
   MalformedText(prototypeMarker), MalformedText(<<"p", "r", "o", "t", "o">>)}

\* values that are no string
NonStrings == {Undef, Num(5), [ty |-> "object"]}

DecodeInputs ==
  {[jsonString |-> t, validator |-> v] :
     t \in JsonTexts \cup MalformedTexts \cup NonStrings, v \in Validators}

InitDecode ==
  /\ StoreAtRest /\ ApiAtRest /\ PluginAtRest
  /\ arg \in DecodeInputs
  /\ ret = NoReturn

\* safeJsonParse(arg.jsonString, arg.validator)
CallSafeJsonParse ==
  /\ ret = NoReturn
  /\ Returns("safeJsonParse", "input", safeJsonParseWith(arg.jsonString, arg.validator))
  /\ UNCHANGED <<arg, storeVars, apiVars, plug>>

NextDecode == CallSafeJsonParse

SpecDecode == InitDecode /\ [][NextDecode]_vars

(***************************************************************************)
(* ValidationUtils.validateApiResponse / validateTrustedAPIResponse.  An   *)
(* object is the sequence of its own properties, in insertion order, and   *)
(* its prototype; a key is the sequence of its characters.                 *)
(***************************************************************************)
ObjectPrototype == [ty |-> "Object.prototype"]

Obj(props) == [ty |-> "object", props |-> props, proto |-> ObjectPrototype]

Arr(items) == [ty |-> "array", items |-> items]

Prop(key, value) == [key |-> key, value |-> value]

Thrown == [ty |-> "thrown"]

constructorKey == <<"c", "o", "n", "s", "t", "r", "u", "c", "t", "o", "r">>

\* made[key] = value: the key __proto__ is the accessor of Object.prototype,
\* which sets the prototype for an object or null and ignores anything else;
\* any other key becomes, or stays, an own property
SetProperty(made, key, value) ==
  IF key = protoMarker
  THEN (IF value.ty \in {"object", "array", "null"}
        THEN [made EXCEPT !.proto = value] ELSE made)
  ELSE IF \E i \in 1..Len(made.props) : made.props[i].key = key
       THEN [made EXCEPT !.props =
               [i \in 1..Len(made.props) |->
                  IF made.props[i].key = key THEN Prop(key, value)
                  ELSE made.props[i]]]
       ELSE [made EXCEPT !.props = Append(made.props, Prop(key, value))]

\* validateObjectKey: /^[a-zA-Z0-9_.-]+$/ on a non-empty key
validateObjectKey(key) ==
  /\ Len(key) > 0
  /\ \A i \in 1..Len(key) :
       \/ key[i] \in Digits \cup {"_", ".", "-"}
       \/ \E k \in 1..26 : key[i] = LowerCase[k] \/ key[i] = UpperCase[k]

RECURSIVE deepValidateObject(_), validateArray(_), DeepValidateFrom(_, _, _), ValidateItems(_, _, _)

\* the value that deepValidateObject stores for value, Undef standing for
\* 'nothing stored'
DeepValue(value) ==
  CASE value.ty = "string" ->
         (LET sanitizeResult == sanitizeForDisplay(value)
          IN IF sanitizeResult.success THEN Str(sanitizeResult.data) ELSE Undef)
    [] value.ty = "array" -> validateArray(value)
    [] value.ty = "object" -> deepValidateObject(value)
    [] OTHER -> value

\* the for loop of deepValidateObject from the i-th entry on
DeepValidateFrom(obj, i, made) ==
  IF i > Len(obj.props) THEN made
  ELSE IF ~validateObjectKey(obj.props[i].key) THEN Thrown
       ELSE LET stored == DeepValue(obj.props[i].value)
            IN IF stored = Thrown THEN Thrown
               ELSE DeepValidateFrom(obj, i + 1,
                      IF stored = Undef /\ obj.props[i].value.ty = "string"
                      THEN made
                      ELSE SetProperty(made, obj.props[i].key, stored))

deepValidateObject(obj) == DeepValidateFrom(obj, 1, Obj(<<>>))

\* arr.map(...).filter(item => item !== null), from the i-th item on
ValidateItems(arr, i, kept) ==
  IF i > Len(arr.items) THEN Arr(kept)
  ELSE LET item == arr.items[i]
           mapped == IF item.ty = "string"
                     THEN (LET made == sanitizeForDisplay(item)
                           IN IF made.success THEN Str(made.data) ELSE JsNull)
                     ELSE DeepValue(item)
       IN IF mapped = Thrown THEN Thrown
          ELSE ValidateItems(arr, i + 1,
                 IF mapped = JsNull THEN kept ELSE Append(kept, mapped))

validateArray(arr) == ValidateItems(arr, 1, <<>>)

decimalDigits == <<"0", "1", "2", "3", "4", "5", "6", "7", "8", "9">>

\* validateApiResponse; Object.entries of an array gives its indices as keys
validateApiResponse(data) ==
  IF data.ty \notin {"object", "array"}
  THEN [success |-> FALSE, code |-> "INVALID_INPUT"]
  ELSE LET validated ==
             deepValidateObject(IF data.ty = "object" THEN data
                                ELSE Obj([i \in 1..Len(data.items) |->
                                            Prop(<<decimalDigits[i]>>, data.items[i])]))
       IN IF validated = Thrown
          THEN [success |-> FALSE, code |-> "VALIDATION_ERROR"]
          ELSE [success |-> TRUE, data |-> validated]

maxPollutionDepth == 10

\* checkObject of hasPrototypePollution: Object.keys gives the own keys
RECURSIVE checkObject(_, _)
checkObject(current, depth) ==
  IF depth > maxPollutionDepth \/ current.ty \notin {"object", "array"} THEN FALSE
  ELSE IF current.ty = "array"
       THEN \E i \in 1..Len(current.items) : checkObject(current.items[i], depth + 1)
       ELSE \E i \in 1..Len(current.props) :
              \/ current.props[i].key \in {protoMarker, prototypeMarker, constructorKey}
              \/ checkObject(current.props[i].value, depth + 1)

\* validateTrustedAPIResponse
validateTrustedAPIResponse(input) ==
  LET validationResult == validateApiResponse(input)
  IN IF ~validationResult.success THEN validationResult
     ELSE IF checkObject(validationResult.data, 0)
          THEN [success |-> FALSE, code |-> "SECURITY_ERROR"]
          ELSE validationResult

\* decoded documents: nothing but what JSON.parse can give
Documents ==
  LET keys == {<<"a">>, protoMarker, prototypeMarker, <<"a", " ">>}
      leaves == {Str(<<"x">>), Num(1), JsNull, Obj(<<>>)}
      flat == {Obj(<<Prop(k, v)>>) : k \in keys, v \in leaves}
      pairs == {Obj(<<Prop(<<"b">>, v), Prop(k, w)>>) :
                  k \in keys, v \in {Num(1)}, w \in leaves}
      nested == {Obj(<<Prop(k, o)>>) : k \in {<<"a">>, protoMarker}, o \in flat}
                  \cup {Obj(<<Prop(<<"a">>, Arr(<<o>>))>>) : o \in flat}
  IN flat \cup pairs \cup nested \cup {Str(<<"x">>), JsNull, Arr(<<>>)}

InitDocument ==
  /\ StoreAtRest /\ ApiAtRest /\ PluginAtRest
  /\ arg \in Documents
  /\ ret = NoReturn

\* validateApiResponse(arg)
CallValidateApiResponse ==
  /\ ret = NoReturn
  /\ Returns("validateApiResponse", "input", validateApiResponse(arg))
  /\ UNCHANGED <<arg, storeVars, apiVars, plug>>

\* validateTrustedAPIResponse(arg)
CallValidateTrustedAPIResponse ==
  /\ ret = NoReturn
  /\ Returns("validateTrustedAPIResponse", "input", validateTrustedAPIResponse(arg))
  /\ UNCHANGED <<arg, storeVars, apiVars, plug>>

NextDocument ==
  \/ CallValidateApiResponse
  \/ CallValidateTrustedAPIResponse

SpecDocument == InitDocument /\ [][NextDocument]_vars

(***************************************************************************)
(* ValidationUtils.validateFilePath                                        *)
(***************************************************************************)
MaxPathLength == 260

\* [\x00-\x1f], as far as the inputs of the model go
PathControlChars == ControlChars \cup {"U+0009"}

\* [<>:"|?*]
PathForbiddenChars == {"<", ">", ":", "\"", "|", "?", "*"}

\* one of dangerousPatterns matches normalized
DangerousPath(normalized) ==
  \/ Includes(normalized, <<".", ".">>)
  \/ Includes(normalized, <<"/", "/">>)
  \/ StartsWith(normalized, <<"/">>)
  \/ /\ Len(normalized) >= 2
     /\ \E k \in 1..26 : normalized[1] \in {LowerCase[k], UpperCase[k]}
     /\ normalized[2] = ":"
  \/ \E i \in 1..Len(normalized) : normalized[i] \in PathControlChars
  \/ \E i \in 1..Len(normalized) : normalized[i] \in PathForbiddenChars

\* validateFilePath
validateFilePath(input) ==
  IF ~IsStr(input) THEN [success |-> FALSE, code |-> "INVALID_INPUT"]
  ELSE LET normalized == Trim(NFKC(input.s))
       IN IF DangerousPath(normalized)
          THEN [success |-> FALSE, code |-> "SECURITY_ERROR"]
          ELSE IF Len(normalized) > MaxPathLength
               THEN [success |-> FALSE, code |-> "INVALID_INPUT"]
               ELSE [success |-> TRUE, data |-> normalized]

MaxPathLen == 3

PathChars == {"a", ".", "/", "\\", ":", " ", "U+0001", "U+0009", "U+007F", "U+FF0F"}

PathInputs ==
  {Str(s) : s \in Strings(PathChars, MaxPathLen)}
    \cup {Str(<<"C", ":", "a">>), Num(1), Undef}
    \cup {Str(Repeat("a", n) \o <<"/", "b">>) :
            n \in {MaxPathLength - 2, MaxPathLength - 1}}

InitPath ==
  /\ StoreAtRest /\ ApiAtRest /\ PluginAtRest
  /\ arg \in PathInputs
  /\ ret = NoReturn

\* validateFilePath(arg)
CallValidateFilePath ==
  /\ ret = NoReturn
  /\ Returns("validateFilePath", "input", validateFilePath(arg))
  /\ UNCHANGED <<arg, storeVars, apiVars, plug>>

NextPath == CallValidateFilePath

SpecPath == InitPath /\ [][NextPath]_vars

(***************************************************************************)
(* The store with records whose texts hold the words that safeJsonParse    *)
(* looks for                                                               *)
(***************************************************************************)
\* a record with the genre 'prototype'
BookP == [BookB EXCEPT !.genre = Str(prototypeMarker)]

\* a record with the title '__proto__'
BookQ == [BookC EXCEPT !.title = Str(protoMarker)]

MarkerAddInputs == {<<PathMain, BookB>>, <<PathMain, BookP>>, <<PathMain, BookQ>>}

\* calls made one after the other, without failures of the vault and
\* without edits outside the store
NextRoundTrip ==
  \/ \E p \in Procs, in \in MarkerAddInputs : CallAdd(p, in[1], in[2])
  \/ \E p \in Procs, in \in UpdateInputs : CallUpdate(p, in[1], in[2], in[3])
  \/ \E p \in Procs, in \in GetInputs : CallGet(p, in[1], in[2])
  \/ \E p \in Procs : Create(p)
  \/ \E p \in Procs : Stat(p)
  \/ \E p \in Procs : Lookup(p)
  \/ \E p \in Procs : Read(p)
  \/ \E p \in Procs : Parse(p)
  \/ \E p \in Procs : AddLoaded(p)
  \/ \E p \in Procs : UpdateLoaded(p)
  \/ \E p \in Procs : GetLoaded(p)
  \/ \E p \in Procs : Modify(p)
  \/ \E p \in Procs : Written(p)
  \/ \E p \in Procs : Return(p)
  \/ \E d \in TickSteps : Tick(d)
  \/ \E filePath \in ClearInputs : clearCache(filePath)
  \/ Sweep

SpecRoundTrip == Init /\ [][NextRoundTrip]_vars

(***************************************************************************)
(* getBookFromBase on rows that the store did not write                    *)
(***************************************************************************)
\* a stored row whose title, author or status is not what the store writes
CorruptRows ==
  LET row == bookDataToBaseEntry(BookC)
  IN {row,
      [row EXCEPT !["Title"] = Num(5)], [row EXCEPT !["Author"] = Num(5)],
      [row EXCEPT !["Title"] = Num(0)],
      [row EXCEPT !["Status"] = Str(<<"lost">>)],
      [row EXCEPT !["Status"] = Num(1)],
      [row EXCEPT !["Title"] = Num(5), !["Status"] = Str(<<"reading">>)]}

\* a stored row whose title or author is longer than display sanitization
\* takes
LongRows ==
  LET row == bookDataToBaseEntry(BookC)
  IN {[row EXCEPT !["Title"] = Str(Repeat("a", DisplayLimit + 1))],
      [row EXCEPT !["Author"] = Str(Repeat("a", DisplayLimit + 1)),
                  !["Status"] = Str(<<"completed">>)]}

\* a collection with such a row and a row as the store writes it
RowContents ==
  {stringify([fields |-> BaseFields,
              entries |-> <<row, bookDataToBaseEntry(BookB)>>]) : row \in CorruptRows}

InitRows ==
  /\ \E content \in RowContents :
       vault = [f \in Paths |->
                  IF f = PathMain
                  THEN [exists |-> TRUE, content |-> content, mtime |-> 1]
                  ELSE NoFile]
  /\ cache = [f \in Paths |-> NoEntry]
  /\ heap = [i \in ObjIds |-> Null]
  /\ now = 1
  /\ pc = [p \in Procs |-> "idle"]
  /\ call = [p \in Procs |-> NoCall]
  /\ loc = [p \in Procs |-> NoLoc]
  /\ result = [p \in Procs |-> NoResult]
  /\ gh = [p \in Procs |-> NoGhost]
  /\ ext = [f \in Paths |-> f = PathMain]
  /\ lastWrite = [f \in Paths |-> [valid |-> FALSE]]
  /\ budget = 0
  /\ concurrent = FALSE
  /\ ApiAtRest
  /\ FnAtRest
  /\ PluginAtRest

\* baseEntryToBookData, applied to a row with a text that is too long
ConvertRow ==
  /\ ret = NoReturn
  /\ \E row \in LongRows :
       /\ arg' = row
       /\ Returns("baseEntryToBookData", "input", baseEntryToBookData(row))
  /\ UNCHANGED <<storeVars, apiVars, plug>>

\* getBookFromBase, again and again, on a file that was edited outside the
\* store
NextRows ==
  \/ ConvertRow
  \/ \E p \in Procs, in \in GetInputs : CallGet(p, in[1], in[2])
  \/ \E p \in Procs : Stat(p)
  \/ \E p \in Procs : Lookup(p)
  \/ \E p \in Procs : Read(p)
  \/ \E p \in Procs : Parse(p)
  \/ \E p \in Procs : GetLoaded(p)
  \/ \E p \in Procs : Return(p)

SpecRows == InitRows /\ [][NextRows]_vars

(***************************************************************************)
(* BookTrackerPlugin.addBookToBase: the cover, the add of the store, the   *)
(* linked note and the update of the store.  The calls of the store are    *)
(* those of the first caller; the plugin goes on when a call has ended.    *)
(***************************************************************************)
PluginSettings ==
  {[DEFAULT_SETTINGS EXCEPT !.createLinkedNotes = linked, !.coversFolder = folder] :
     linked \in BOOLEAN, folder \in {DEFAULT_SETTINGS.coversFolder, Str(<<".", ".">>)}}

PluginBooks == {BookB, BookC}

InitPlugin ==
  /\ StoreAtRest /\ ApiAtRest /\ FnAtRest
  /\ plug \in {[NoPlugin EXCEPT !.settings = settings] : settings \in PluginSettings}

\* the plugin's addBookToBase(bookData) up to the first await of
\* downloadBookCover
PluginAddBookToBase(bookData) ==
  /\ plug.at \in {"idle", "end", "thrown"}
  /\ pc["p1"] = "idle"
  /\ MayAct
  /\ plug' = [plug EXCEPT !.at = "cover", !.bookData = bookData, !.added = "none",
                          !.noteMade = FALSE, !.issued = FALSE,
                          !.coverFailed = FALSE, !.noteFailed = FALSE]
  /\ UNCHANGED <<storeVars, apiVars, fnVars>>

\* downloadBookCover: whatever fails in it is caught and only logged
downloadBookCover(saved) ==
  /\ plug.at = "cover"
  /\ LET Download(coversDirResult, isbnResult) ==
           LET coverPath == coversDirResult.data \o <<"/">> \o isbnResult.data
                              \o <<".", "j", "p", "g">>
               withCover == [f \in DOMAIN plug.bookData \cup {"cover_path"} |->
                               IF f = "cover_path" THEN Str(coverPath)
                               ELSE plug.bookData[f]]
           IN IF ~coversDirResult.success \/ ~isbnResult.success
              THEN plug' = [plug EXCEPT !.at = "add", !.coverFailed = TRUE]
              ELSE IF coverPath \in plug.covers
                   THEN plug' = [plug EXCEPT !.at = "add", !.bookData = withCover]
                   ELSE IF saved
                        THEN plug' = [plug EXCEPT !.at = "add", !.bookData = withCover,
                                                  !.covers = @ \cup {coverPath}]
                        ELSE plug' = [plug EXCEPT !.at = "add", !.coverFailed = TRUE]
     IN Download(validateFilePath(plug.settings.coversFolder),
                 validateISBN(plug.bookData.isbn))
  /\ UNCHANGED <<storeVars, apiVars, fnVars>>

\* as AddReturned, had the plugin gone on to the note whatever the add
\* returned
AddReturnedUnchecked ==
  /\ plug.at = "add"
  /\ pc["p1"] = "done" /\ call["p1"].op = "add"
  /\ plug' = [plug EXCEPT !.at = "note",
                          !.added = IF result["p1"].kind = "error" THEN "error"
                                    ELSE IF result["p1"].value THEN "true" ELSE "false"]
  /\ UNCHANGED <<storeVars, apiVars, fnVars>>

\* the add of the store has ended: thrown on, or false and a notice, or true
\* and the note if the settings ask for one
AddReturned ==
  /\ plug.at = "add"
  /\ pc["p1"] = "done" /\ call["p1"].op = "add"
  /\ IF result["p1"].kind = "error"
     THEN plug' = [plug EXCEPT !.at = "thrown", !.added = "error"]
     ELSE IF ~result["p1"].value
          THEN plug' = [plug EXCEPT !.at = "end", !.added = "false"]
          ELSE plug' = [plug EXCEPT !.added = "true",
                                    !.at = IF plug.settings.createLinkedNotes
                                           THEN "note" ELSE "end"]
  /\ UNCHANGED <<storeVars, apiVars, fnVars>>

\* `${bookData.title} - ${bookData.author}`
noteTitle(bookData) == bookData.title.s \o <<" ", "-", " ">> \o bookData.author.s

\* the plugin's sanitizeFileName, with its fallback
safeFileName(fileName) ==
  LET sanitized == sanitizeFileName(Str(fileName))
  IN IF sanitized.success THEN sanitized.data
     ELSE <<"u", "n", "t", "i", "t", "l", "e", "d">>

\* the paths of the notes of the records the plugin is given
notePaths ==
  [title \in {noteTitle(bookData) : bookData \in PluginBooks} |->
     safeFileName(title) \o <<".", "m", "d">>]

\* createBookNote up to the await of updateBookInBase: nothing when the note
\* exists, and a failure of vault.create is caught
createBookNote(created) ==
  /\ plug.at = "note"
  /\ pc["p1"] = "idle"
  /\ LET linked == [f \in DOMAIN plug.bookData \cup {"notes_link"} |->
                      IF f = "notes_link"
                      THEN Str(<<"[", "[">> \o noteTitle(plug.bookData) \o <<"]", "]">>)
                      ELSE plug.bookData[f]]
         Note(notePath) ==
           IF notePath \in plug.notes
           THEN plug' = [plug EXCEPT !.at = "end"]
           ELSE IF created
                THEN plug' = [plug EXCEPT !.at = "update", !.noteMade = TRUE,
                                          !.notes = @ \cup {notePath},
                                          !.bookData = linked]
                ELSE plug' = [plug EXCEPT !.at = "end", !.noteFailed = TRUE]
     IN Note(notePaths[noteTitle(plug.bookData)])
  /\ UNCHANGED <<storeVars, apiVars, fnVars>>

\* the update of the store has ended: with a notice, whatever it returned
UpdateReturned ==
  /\ plug.at = "update"
  /\ pc["p1"] = "done" /\ call["p1"].op = "update"
  /\ plug' = [plug EXCEPT !.at = "end", !.issued = TRUE]
  /\ UNCHANGED <<storeVars, apiVars, fnVars>>

\* the plugin and the store under it, with failures of the vault
NextPlugin ==
  \/ \E bookData \in PluginBooks : PluginAddBookToBase(bookData)
  \/ \E saved \in BOOLEAN : downloadBookCover(saved)
  \/ plug.at = "add" /\ CallAdd("p1", plug.settings.baseFilePath, plug.bookData)
  \/ AddReturned
  \/ \E created \in BOOLEAN : createBookNote(created)
  \/ /\ plug.at = "update"
     /\ CallUpdate("p1", plug.settings.baseFilePath, plug.bookData.isbn,
                   [notes_link |-> plug.bookData.notes_link])
  \/ UpdateReturned
  \/ Create("p1")
  \/ CreateFails("p1")
  \/ Stat("p1")
  \/ StatFails("p1")
  \/ Lookup("p1")
  \/ Read("p1")
  \/ ReadFails("p1")
  \/ Parse("p1")
  \/ AddLoaded("p1")
  \/ UpdateLoaded("p1")
  \/ Modify("p1")
  \/ ModifyFails("p1")
  \/ Written("p1")
  \/ plug.at \notin {"add", "update"} /\ Return("p1")

SpecPlugin == InitPlugin /\ [][NextPlugin]_vars

(***************************************************************************)
(* Properties                                                              *)
(***************************************************************************)
\* the call of p has ended and nothing came between its steps
Ended(p, op) == pc[p] = "done" /\ call[p].op = op /\ gh[p].calm

\* the entries the file of the call of p held when the call began (none
\* when there was no file: addBookToBase creates an empty collection)
PreEntries(p) ==
  IF gh[p].file.exists
  THEN parseBaseContent(gh[p].file.content).data.entries
  ELSE <<>>

PreDecodes(p) ==
  ~gh[p].file.exists \/ parseBaseContent(gh[p].file.content).ok

\* the collection the call of p had before it: the one a get would have
\* seen, or the empty one of createEmptyBaseContent when there was no file
PreView(p) ==
  IF gh[p].file.exists THEN gh[p].view
  ELSE parseBaseContent(createEmptyBaseContent).data

\* the entries the file of a path holds now
FileEntries(path) == parseBaseContent(vault[path].content).data.entries

Returned(p, b) == result[p] = [kind |-> "bool", value |-> b]

\* C1: a collection that only the store has written never holds two entries
\* with the same ISBN.
C1_NoDuplicateISBN ==
  \A path \in Paths :
    (vault[path].exists /\ ~ext[path]) =>
      \A i, j \in 1..Len(FileEntries(path)) :
        i # j => Field(FileEntries(path)[i], "ISBN") # Field(FileEntries(path)[j], "ISBN")

\* C2: addBookToBase returns true and appends exactly one entry when the
\* collection holds no entry with the identifier, and returns false and
\* changes neither the file nor the cached collection when it holds one.
C2_AddDetectsDuplicates ==
  \A p \in Procs :
    (Ended(p, "add") /\ ~ext[call[p].path] /\ result[p].kind = "bool") =>
      LET path == call[p].path
          dup == isDuplicate(PreEntries(p), Field(call[p].book, "isbn"))
      IN /\ Returned(p, ~dup)
         /\ ~dup => FileEntries(path)
                      = Append(PreEntries(p), bookDataToBaseEntry(call[p].book))
         /\ dup => /\ vault[path] = gh[p].file
                   /\ gh[p].entry # NoEntry => heap[cache[path].data] = gh[p].data

\* C3: an update that found its record changes, in the file, only the keys
\* of that record that the partial record names.
C3_UpdateFrame ==
  \A p \in Procs :
    (Ended(p, "update") /\ ~ext[call[p].path] /\ Returned(p, TRUE)) =>
      LET old == PreEntries(p)
          new == FileEntries(call[p].path)
          named == {RequiredFields[f] : f \in DOMAIN RequiredFields \cap DOMAIN call[p].updates}
                     \cup {StringFields[f] : f \in DOMAIN StringFields \cap DOMAIN call[p].updates}
                     \cup {NumberFields[f] : f \in DOMAIN NumberFields \cap DOMAIN call[p].updates}
      IN /\ Len(new) = Len(old)
         /\ \A i \in 1..Len(old) : \A k \in EntryKeys \ named :
              Field(new[i], k) = Field(old[i], k)
         /\ \A i \in 1..Len(old) :
              Field(old[i], "ISBN") # call[p].isbn => new[i] = old[i]

\* C4: an update for an identifier that no entry of the source has returns
\* false, writes nothing and leaves the collection as it was, in the file and
\* as a get would see it.
C4_UpdateAbsent ==
  \A p \in Procs :
    (/\ Ended(p, "update") /\ ~ext[call[p].path] /\ ~gh[p].failed
     /\ gh[p].file.exists /\ PreDecodes(p)
     /\ ~isDuplicate(PreEntries(p), call[p].isbn)) =>
      /\ Returned(p, FALSE)
      /\ gh[p].writes = 0
      /\ vault[call[p].path] = gh[p].file
      /\ View(call[p].path) = gh[p].view

\* C5: when the write of an add or update fails, the cache holds the
\* collection it held (or would have loaded) before the call.
C5_FailedPersistKeepsCache ==
  \A p \in Procs :
    (pc[p] = "done" /\ gh[p].calm /\ gh[p].failedAt = "modify") =>
      /\ cache[call[p].path] # NoEntry
      /\ heap[cache[call[p].path].data] = PreView(p)

\* C6: a get that begins after a write has completed, with the file still
\* as that write left it, finds every record the write stored.
C6_ReadYourWrites ==
  \A p \in Procs :
    (/\ pc[p] = "done" /\ call[p].op = "get"
     /\ gh[p].seen.valid /\ lastWrite[call[p].path] = gh[p].seen
     /\ call[p].isbn \in gh[p].seen.isbns) =>
      result[p].kind = "record"

\* C7: the caching read path hands out the cached collection exactly when
\* there is an entry whose time is at least the mtime of the file; otherwise
\* it reads and parses the file once, returns what the file holds and stores
\* it in the cache under the mtime of the file.
C7_CacheByMtime ==
  \A p \in Procs :
    (Ended(p, "get") /\ gh[p].file.exists /\ ~gh[p].failed) =>
      LET path == call[p].path
      IN IF gh[p].entry # NoEntry /\ gh[p].entry.lastModified >= gh[p].file.mtime
         THEN /\ gh[p].reads = 0
              /\ result[p] = getResult(gh[p].data.entries, call[p].isbn)
         ELSE /\ gh[p].reads = 1
              /\ result[p] = getResult(PreEntries(p), call[p].isbn)
              /\ cache[path].lastModified = gh[p].file.mtime
              /\ heap[cache[path].data] = parseBaseContent(gh[p].file.content).data

\* a get after an edit outside the store, with a newer mtime than the cache
\* entry, has returned the record that the edit put into the file
C7_Witness ==
  \E p \in Procs :
    /\ Ended(p, "get") /\ ~gh[p].failed /\ ext[call[p].path]
    /\ gh[p].entry # NoEntry /\ gh[p].entry.lastModified < gh[p].file.mtime
    /\ result[p].kind = "record"
    /\ result[p].value.title = Str(<<"E", "m", "m", "a">>)

\* C8: a get after a successful add of r returns a record with the title,
\* author, isbn and status of r.
C8_GetAfterAdd ==
  \A p \in Procs :
    (/\ Ended(p, "get") /\ ~gh[p].failed
     /\ gh[p].seen.valid /\ gh[p].seen.op = "add"
     /\ lastWrite[call[p].path] = gh[p].seen
     /\ call[p].isbn = gh[p].seen.book.isbn) =>
      /\ result[p].kind = "record"
      /\ \A f \in DOMAIN RequiredFields : result[p].value[f] = gh[p].seen.book[f]

\* C9: a call during which the vault or the decoder failed ends with an
\* error.
C9_FailuresSurface ==
  \A p \in Procs :
    (pc[p] = "done" /\ gh[p].failed) => result[p].kind = "error"

C11_ClearScoped ==
  [][\A filePath \in ClearInputs :
       clearCache(filePath) =>
         /\ vault' = vault
         /\ IF IsStr(filePath)
            THEN \A f \in Paths :
                   cache'[f] = IF f = filePath.s THEN NoEntry ELSE cache[f]
            ELSE \A f \in Paths : cache'[f] = NoEntry]_vars

\* C12: ensureBaseFile on an existing source returns without creating or
\* changing anything; where there was no source it creates one whose content
\* the decoder of the store accepts as a collection without entries.
C12_EnsureIdempotent ==
  \A p \in Procs :
    (Ended(p, "ensure") /\ ~gh[p].failed) =>
      LET path == call[p].path
      IN /\ result[p].kind = "void"
         /\ gh[p].writes = 0
         /\ IF gh[p].file.exists
            THEN gh[p].creates = 0 /\ vault[path] = gh[p].file
            ELSE /\ gh[p].creates = 1
                 /\ vault[path].exists
                 /\ parseBaseContent(vault[path].content).ok
                 /\ FileEntries(path) = <<>>

\* ensureBaseFile has returned on a source that held an entry
C12_Witness ==
  \E p \in Procs :
    /\ Ended(p, "ensure") /\ ~gh[p].failed
    /\ gh[p].file.exists /\ PreDecodes(p) /\ Len(PreEntries(p)) >= 1

\* C13: no window of RATE_WINDOW milliseconds holds more than RATE_LIMIT
\* recorded requests.
C13_RateLimit ==
  \A i \in 1..Len(sent) :
    Cardinality({j \in 1..Len(sent) :
                   sent[i] - RATE_WINDOW < sent[j] /\ sent[j] <= sent[i]})
      <= RATE_LIMIT

\* C14: sanitizeForDisplay applied to its own output returns that output
\* unchanged.
C14_DisplayIdempotent ==
  (ret.fn = "sanitizeForDisplay" /\ ret.on = "output") =>
    ret.out = [success |-> TRUE, data |-> arg.s]

\* C15: a name returned by sanitizeFileName holds no '/', no '\' and no
\* '..'.
C15_NoSeparators ==
  (ret.fn = "sanitizeFileName" /\ ret.out.success) =>
    /\ \A i \in 1..Len(ret.out.data) : ret.out.data[i] \notin {"/", "\\"}
    /\ ~Includes(ret.out.data, <<".", ".">>)

\* a name with a parent reference, a separator and an executable extension has
\* been sanitized, and the extension was renamed
C15_Witness ==
  /\ ret.fn = "sanitizeFileName" /\ ret.on = "input" /\ ret.out.success
  /\ Includes(arg.s, <<".", ".">>)
  /\ \E i \in 1..Len(arg.s) : arg.s[i] \in {"/", "\\"}
  /\ EndsWith(ret.out.data, SafeSuffix)

\* C16: sanitizeFileName applied to its own output succeeds and returns that
\* output.
C16_FileNameIdempotent ==
  (ret.fn = "sanitizeFileName" /\ ret.on = "output") =>
    ret.out = [success |-> TRUE, data |-> arg.s]

\* the value of the character c of an ISBN, X being 10
C17_Value(c) == IF c = "X" THEN 10 ELSE DigitVal(c)

\* the sum of the characters of t, the i-th weighted by weight[i]
C17_Sum(t, weight) ==
  LET acc[i \in 0..Len(t)] ==
        IF i = 0 THEN 0 ELSE acc[i - 1] + weight[i] * C17_Value(t[i])
  IN acc[Len(t)]

\* the set of C17: t is s without hyphens and whitespace
C17_Accepted(s) ==
  LET t == SelectSeq(s, LAMBDA c : c \notin {"-", " "})
  IN \/ /\ Len(t) = 10
        /\ \A i \in 1..9 : t[i] \in Digits
        /\ t[10] \in Digits \cup {"X"}
        /\ C17_Sum(t, [i \in 1..10 |-> 11 - i]) % 11 = 0
     \/ /\ Len(t) = 13
        /\ \A i \in 1..13 : t[i] \in Digits
        /\ C17_Sum(t, [i \in 1..13 |-> IF i % 2 = 1 THEN 1 ELSE 3]) % 10 = 0

\* C17: validateISBN succeeds exactly for the strings that, without hyphens
\* and whitespace, are an ISBN-10 or an ISBN-13 with a right checksum; every
\* other input gets a failure result.
C17_AcceptanceSet ==
  (ret.fn = "validateISBN" /\ ret.on = "input") =>
    /\ ret.out.success \in BOOLEAN
    /\ ret.out.success <=> (IsStr(arg) /\ C17_Accepted(arg.s))

\* C18: an accepted ISBN-10 with one digit replaced by a different digit is
\* rejected; 9780306406157 is accepted and 9780306406158 is rejected.
C18_SingleDigit ==
  /\ (ret.fn = "validateISBN" /\ ret.on = "altered") => ~ret.out.success
  /\ (ret.fn = "validateISBN" /\ ret.on = "input" /\ arg = Str(ISBN13))
       => ret.out.success
  /\ (ret.fn = "validateISBN" /\ ret.on = "input" /\ arg = Str(ISBN13Bad))
       => ~ret.out.success

\* the check character X of an accepted ISBN-10 was kept and the first digit
\* replaced
C18_Witness ==
  /\ ret.fn = "validateISBN" /\ ret.on = "altered"
  /\ ret.first = [success |-> TRUE, data |-> ISBN10X]
  /\ arg.s[1] # "0"

\* C19: for a string of digits, X, hyphens and whitespace, validateISBN
\* succeeds iff it succeeds on the string without hyphens and whitespace, and
\* then returns that stripped string, of digits and X and of length 10 or
\* 13; a string with any other character is rejected.
C19_FormatIndependent ==
  /\ (ret.fn = "validateISBN" /\ ret.on = "stripped"
        /\ \A i \in 1..Len(arg.s) : arg.s[i] \in Digits \cup {"X"}) =>
       /\ ret.first.success <=> ret.out.success
       /\ ret.first.success =>
            /\ ret.first.data = arg.s
            /\ Len(arg.s) \in {10, 13}
  /\ (ret.fn = "validateISBN" /\ ret.on = "input" /\ IsStr(arg)
        /\ \E i \in 1..Len(arg.s) : arg.s[i] \notin Digits \cup {"X", "-", " "}) =>
       ~ret.out.success

\* the text holds '__proto__' or 'prototype': in an entry of the collection
\* it states, or among its characters
C20_Marked(t) ==
  \/ \E b \in DecodeBooks :
       /\ t = stringify([fields |-> BaseFields, entries |-> <<bookDataToBaseEntry(b)>>])
       /\ \/ b.title.s = protoMarker
          \/ Includes(b.author.s, prototypeMarker)
  \/ t \in {MalformedText(<<"{", "\"">> \o protoMarker), MalformedText(prototypeMarker)}

RECURSIVE C21_HasProtoKey(_)
C21_HasProtoKey(doc) ==
  CASE doc.ty = "object" ->
         \E i \in 1..Len(doc.props) :
           doc.props[i].key = protoMarker \/ C21_HasProtoKey(doc.props[i].value)
    [] doc.ty = "array" -> \E i \in 1..Len(doc.items) : C21_HasProtoKey(doc.items[i])
    [] OTHER -> FALSE

\* C21: a document with an own key __proto__ at any depth gets a failure with
\* the security code from validateApiResponse and from
\* validateTrustedAPIResponse, and nothing of the document is returned.
C21_ProtoKeyRejected ==
  (ret.fn \in {"validateApiResponse", "validateTrustedAPIResponse"}
     /\ C21_HasProtoKey(arg)) =>
    ret.out = [success |-> FALSE, code |-> "SECURITY_ERROR"]

\* C22: a path that validateFilePath accepts has no '..', begins with no
\* separator, forward or backward, has no drive letter prefix, no doubled
\* separator of either kind and no control character, and is at most 260
\* characters long.
C22_SafeRelativePath ==
  (ret.fn = "validateFilePath" /\ ret.out.success) =>
    LET path == ret.out.data
    IN /\ ~Includes(path, <<".", ".">>)
       /\ ~StartsWith(path, <<"/">>) /\ ~StartsWith(path, <<"\\">>)
       /\ ~(Len(path) >= 2 /\ path[2] = ":"
              /\ \E k \in 1..26 : path[1] \in {LowerCase[k], UpperCase[k]})
       /\ \A a, b \in {"/", "\\"} : ~Includes(path, <<a, b>>)
       /\ \A i \in 1..Len(path) : path[i] \notin {"U+0001", "U+0009", "U+007F"}
       /\ Len(path) <= MaxPathLength

\* a sequence is the beginning of another
C23_Prefix(s, t) == Len(s) <= Len(t) /\ s = SubSeq(t, 1, Len(s))

\* the answer of Open Library is missing or incomplete, in the words of the
\* claim
C23_Incomplete(data) ==
  \/ data = JsNull
  \/ data.title = UnknownTitle \/ data.author = UnknownAuthor
  \/ \E three \in SUBSET {"pages", "publisher", "description", "genre"} :
       Cardinality(three) = 3 /\ \A x \in three : data[x] = Undef

\* C23: fetchBookData with an invalid ISBN ends before any rate limit check
\* or request; with a valid one its checks and requests are, in this order, a
\* check, the request to Open Library, a check, the request to Google Books,
\* and when it is done it has asked Google Books exactly if the answer of
\* Open Library was missing or incomplete.
C23_FallbackOrder ==
  LET fetch == fpc["f1"]
  IN fetch.at # "idle" =>
       /\ ~validateISBN(fetch.isbn).success =>
            /\ fetch.at = "thrown" /\ fetch.log = <<>>
            /\ \A i \in 1..Len(sent) : sent[i] = 0
       /\ validateISBN(fetch.isbn).success => fetch.at # "thrown"
       /\ C23_Prefix(fetch.log, <<"check", "openlibrary", "check", "google">>)
       /\ fetch.at = "done" =>
            /\ Len(fetch.log) >= 2
            /\ (Len(fetch.log) = 4) <=> C23_Incomplete(fetch.openLibraryData)

\* a lookup is done that asked Google Books behind a gate that slept,
\* because Open Library knew the title, the author and the pages only
C23_Witness ==
  /\ fpc["f1"].at = "done"
  /\ fpc["f1"].log = <<"check", "openlibrary", "check", "google">>
  /\ fpc["f1"].openLibraryData # JsNull
  /\ fpc["f1"].openLibraryData.title # UnknownTitle
  /\ fpc["f1"].openLibraryData.author # UnknownAuthor
  /\ fpc["f1"].openLibraryData.pages # Undef
  /\ Len(sent) = RATE_LIMIT + 2

\* both callers have an addBookToBase on the same path that returned true,
\* for different identifiers
C24_BothAdded ==
  /\ \A p \in Procs : pc[p] = "done" /\ call[p].op = "add" /\ Returned(p, TRUE)
  /\ call["p1"].path = call["p2"].path
  /\ Field(call["p1"].book, "isbn") # Field(call["p2"].book, "isbn")

\* C24: add calls on one path are not serialized, the last write wins: when
\* two overlapping addBookToBase calls for different identifiers have both
\* returned true, the file holds what one of them wrote, and when neither had
\* loaded the record of the other (both loaded before either wrote) the file
\* lacks one of the two records.
C24_LastWriteWins ==
  C24_BothAdded =>
    LET pending(p) == loc[p].updatedContent
        added(p) == Field(call[p].book, "isbn")
        lacks(content, p) == ~isDuplicate(content.value.entries, added(p))
        held == vault[call["p1"].path].content
    IN /\ held \in {pending(p) : p \in Procs}
       /\ (lacks(pending("p1"), "p2") /\ lacks(pending("p2"), "p1")) =>
            \E p \in Procs : lacks(held, p)

\* two overlapping adds returned true and the file lacks the record of one
C24_Witness ==
  /\ C24_BothAdded
  /\ \E p \in Procs :
       ~isDuplicate(FileEntries(call[p].path), Field(call[p].book, "isbn"))

\* C25: what the caching read path hands out is independent of the cache
\* entry: the cached collection of a path changes only when the entry is
\* replaced (updateCache) or dropped, never by what add and update do to the
\* collection they loaded.
C25_DefensiveCopy ==
  [][\A path \in Paths :
       (cache[path] # NoEntry /\ cache'[path] = cache[path]) =>
         heap'[cache[path].data] = heap[cache[path].data]]_vars

\* C25, its last part: a get does not return a record that an add still
\* awaiting its write has pushed
C25_GetSeesPersisted ==
  \A p, q \in Procs :
    (pc[p] = "modify" /\ call[p].op = "add" /\ pc[q] = "done" /\ call[q].op = "get"
       /\ call[q].path = call[p].path /\ call[q].isbn = Field(call[p].book, "isbn"))
      => (result[q].kind = "record" => isDuplicate(FileEntries(call[p].path), call[q].isbn))

\* C26: after an add or update that returned true, the cache entry of the
\* path holds the collection just written, under the mtime that the write
\* gave the file.
C26_CacheAfterWrite ==
  \A p \in Procs :
    ((Ended(p, "add") \/ Ended(p, "update")) /\ Returned(p, TRUE)) =>
      LET path == call[p].path
      IN /\ cache[path] # NoEntry
         /\ stringify(heap[cache[path].data]) = vault[path].content
         /\ cache[path].lastModified = vault[path].mtime

\* the value, as stored, is one that display sanitization refuses: a string
\* that is too long, or a value that is no string (and not falsy, which the
\* conversion reads as the empty string)
C27_Refused(value) ==
  \/ IsStr(value) /\ Len(value.s) > DisplayLimit
  \/ IsNum(value) /\ value.n # 0

\* C27, for the rows that a get finds
C27_Get ==
  \A p \in Procs :
    (Ended(p, "get") /\ ~gh[p].failed /\ findIndex(PreEntries(p), call[p].isbn) # 0) =>
      LET entries == PreEntries(p)
          entry == entries[findIndex(entries, call[p].isbn)]
      IN /\ result[p].kind = "record"
         /\ IF C27_Refused(entry["Title"]) \/ C27_Refused(entry["Author"])
            THEN result[p].value = PlaceholderBook
            ELSE /\ result[p].value.author = entry["Author"]
                 /\ result[p].value.status =
                      IF entry["Status"] \in {Str(st) : st \in BookStatuses}
                      THEN entry["Status"] ELSE Str(<<"to-read">>)

\* C27, for a text that is too long: the conversion of the row gives the
\* placeholder record
C27_TooLong ==
  ret.fn = "baseEntryToBookData" =>
    /\ C27_Refused(arg["Title"]) \/ C27_Refused(arg["Author"])
    /\ ret.out = PlaceholderBook

C27_WitnessTooLong ==
  /\ ret.fn = "baseEntryToBookData"
  /\ Len(arg["Author"].s) > DisplayLimit
  /\ ret.out.status = Str(<<"to-read">>)

\* C28: what add and update write, the caching read path accepts: a get,
\* add or update that finds the file as the last write of the store left it,
\* and has to read it, does not fail in the decoder, and a get for an
\* identifier of that write returns a record.
C28_RoundTrip ==
  \A p \in Procs :
    (/\ pc[p] = "done" /\ gh[p].calm
     /\ call[p].op \in {"get", "add", "update"}
     /\ gh[p].seen.valid /\ gh[p].reads = 1) =>
      /\ gh[p].failedAt # "parse"
      /\ (call[p].op = "get" /\ call[p].isbn \in gh[p].seen.isbns) =>
           result[p].kind = "record"

\* C29: the cache is transparent: a call that does not fail, on a path that
\* nothing but the store has written, returns what a store without a cache
\* returns, which reads and parses the file every time, and leaves in the
\* file what that store leaves.
C29_CacheTransparent ==
  \A p \in Procs :
    (/\ pc[p] = "done" /\ gh[p].calm /\ ~gh[p].failed
     /\ ~ext[call[p].path] /\ PreDecodes(p)) =>
      LET held == PreEntries(p)
          path == call[p].path
      IN CASE call[p].op = "get" -> result[p] = getResult(held, call[p].isbn)
           [] call[p].op = "add" ->
                IF isDuplicate(held, Field(call[p].book, "isbn"))
                THEN Returned(p, FALSE) /\ vault[path] = gh[p].file
                ELSE /\ Returned(p, TRUE)
                     /\ FileEntries(path) = Append(held, bookDataToBaseEntry(call[p].book))
           [] call[p].op = "update" /\ gh[p].file.exists ->
                IF findIndex(held, call[p].isbn) = 0
                THEN Returned(p, FALSE) /\ vault[path] = gh[p].file
                ELSE /\ Returned(p, TRUE)
                     /\ FileEntries(path) =
                          [held EXCEPT ![findIndex(held, call[p].isbn)] =
                             mergeUpdates(@, call[p].updates)]
           [] OTHER -> TRUE

\* the file of the plugin holds an entry with the identifier of the record
\* the plugin is adding, hyphens and spaces apart
C30_Stored ==
  /\ vault[plug.settings.baseFilePath].exists
  /\ \E i \in 1..Len(FileEntries(plug.settings.baseFilePath)) :
       StripSeparators(FileEntries(plug.settings.baseFilePath)[i]["ISBN"].s)
         = StripSeparators(plug.bookData.isbn.s)

\* C30: the plugin creates the note and issues the update of the store only
\* after the add of the store has returned true; after an add that returned
\* false or failed there is no note and no update; the add is made whatever
\* the cover download did, and a record that was added is in the file at the
\* end whether the cover or the note failed or not.
C30_AddThenLink ==
  /\ (plug.noteMade \/ plug.issued \/ plug.at \in {"note", "update"}
        \/ (plug.at # "idle" /\ call["p1"].op = "update")) => plug.added = "true"
  /\ (plug.at \in {"end", "thrown"} /\ plug.added # "true") =>
       /\ ~plug.noteMade /\ ~plug.issued
       /\ plug.added \in {"false", "error"}
  /\ (plug.at = "end" /\ plug.added = "true") => C30_Stored

\* the cover failed, the add returned true, the note was created and the
\* update has returned
C30_Witness ==
  /\ plug.at = "end" /\ plug.coverFailed
  /\ plug.added = "true" /\ plug.noteMade /\ plug.issued

====
